---- MODULE Spec2Model ----
(***************************************************************************)
(* A model of the BiomeAI Discord bot (src/bot.py, src/openai_client.py,   *)
(* src/pdf_processor.py, src/models.py, src/config.py).                    *)
(*                                                                         *)
(*   Spec       the on_message handlers of bot.py run as concurrent        *)
(*              asyncio tasks over the shared database and the shared      *)
(*              processing_users set.  A task runs without interruption    *)
(*              from one suspension point (an await of network I/O or of   *)
(*              asyncio.sleep) to the next, so there is one action per     *)
(*              suspension point: the awaited call returns or raises, and  *)
(*              the code up to the next await runs.  The database calls    *)
(*              (SQLAlchemy, synchronous) and the OpenAI calls             *)
(*              (synchronous) do not suspend.  Two users upload and write  *)
(*              in the threads; the calls of handle_thread_message may     *)
(*              raise.                                                     *)
(*   SpecUpload the same handlers for uploads only.  Either two users      *)
(*              upload and the calls of process_pdf_upload may raise, or   *)
(*              one user uploads and Discord may answer create_thread      *)
(*              with error 160004, which starts the retry loop, or one     *)
(*              user uploads in the text channel and again in the thread   *)
(*              of the report, and create_thread may fail.                 *)
(*   SpecStage  the same handlers for one user who uploads one report and  *)
(*              then writes one message at a time, waiting for the bot to  *)
(*              finish; only the generation call may fail.                 *)
(*   SpecChunk  PDFProcessor.chunk_text, one action per loop iteration,    *)
(*              over every text up to MaxTextLen and every chunk size and  *)
(*              overlap up to MaxChunkSize.                                *)
(*   SpecRetrieve, SpecBudget, SpecSegment                                 *)
(*              BiomeBot.find_relevant_chunks, the token budgeting of      *)
(*              create_microbiome_analysis and the splitting of a response *)
(*              into Discord messages, each called once on every input of  *)
(*              a bounded set; described where they are defined.           *)
(***************************************************************************)
EXTENDS Integers, Sequences, FiniteSets, TLC

VARIABLES
    mode,              \* which of the runs described above this is
    \* ---- bot.py ----
    processing_users,  \* BiomeBot.processing_users
    users,             \* table users: the ids
    reports,           \* table reports, in id order (id = position)
    report_chunks,     \* table report_chunks
    messages,          \* table messages
    threads,           \* ids of the Discord threads that exist
    nextId,            \* the next Discord snowflake
    nPosted,           \* inbound messages created so far
    inbox,             \* inbound messages not yet dispatched to on_message
    task,              \* the on_message tasks
    stageLog,          \* history: the prompt selected for each thread message
    \* ---- PDFProcessor.chunk_text (src/pdf_processor.py) ----
    text,              \* the argument of chunk_text, a sequence of characters
    chunk_size,        \* config.CHUNK_SIZE
    chunk_overlap,     \* config.CHUNK_OVERLAP
    cpc,               \* "idle" | "loop" | "done": position in chunk_text
    start,             \* local start
    chunk_idx,         \* local chunk_idx
    chunks,            \* local chunks, the list returned
    \* ---- the functions checked on their own ----
    call               \* the call in hand: its arguments, then its result

botVars == <<processing_users, users, reports, report_chunks, messages,
             threads, nextId, nPosted, inbox, task, stageLog>>

chunkVars == <<text, chunk_size, chunk_overlap, cpc, start, chunk_idx, chunks>>

vars == <<mode, processing_users, users, reports, report_chunks, messages,
          threads, nextId, nPosted, inbox, task, stageLog,
          text, chunk_size, chunk_overlap, cpc, start, chunk_idx, chunks,
          call>>

Max(S) == CHOOSE x \in S : \A y \in S : y <= x
Min(S) == CHOOSE x \in S : \A y \in S : x <= y

(***************************************************************************)
(*                 Message texts and the stage heuristics                  *)
(***************************************************************************)

\* A text is modelled by what the code asks of it: whether it is the empty
\* string, and which of the phrases the code searches for occur in its
\* lower-cased form.
Keywords == {"antibiotic", "medication", "supplement",
             "does this match your actual diet",
             "energy levels", "does this match your energy levels",
             "digestive issues", "is this accurate",
             "digestive issues you experience",
             "executive summary", "actionable insight", "feel free to ask"}

\* A phrase that contains another as a substring brings it along.
Close(K) ==
    K \cup (IF "does this match your energy levels" \in K
            THEN {"energy levels"} ELSE {})
      \cup (IF "digestive issues you experience" \in K
            THEN {"digestive issues"} ELSE {})

T(K) == [empty |-> FALSE, kws |-> Close(K)]
EmptyText == [empty |-> TRUE, kws |-> {}]
PlainText == T({})

\* Python truthiness of a str.
Truthy(t) == ~t.empty

\* Line 228: "[PDF Upload: <filename>]".
UploadNote == T({})

\* Lines 212-217: both variants of date_response end with the antibiotics
\* question.
DateResponse == T({"antibiotic"})

\* Line 462.
QaInvitation == T({"feel free to ask"})

\* A model that ignores what the system prompt asks for.
PrescribedNothing(prompt) == {}

\* The ending each system prompt of create_microbiome_analysis prescribes
\* (openai_client.py lines 87, 100, 113, 126).
Prescribed(prompt) ==
    CASE prompt = "diet" -> {"does this match your actual diet"}
      [] prompt = "energy" -> {"does this match your energy levels"}
      [] prompt = "digestive" -> {"is this accurate",
                                  "digestive issues you experience"}
      [] prompt = "executive" -> {"executive summary"}
      [] OTHER -> {}

\* conversation_history[-n:]
LastN(h, n) == IF Len(h) <= n THEN h ELSE SubSeq(h, Len(h) - n + 1, Len(h))

\* " ".join(msg["content"].lower() for msg in ...), as the set of phrases
\* found in it.
RecentContent(h) == UNION {h[i].content.kws : i \in 1..Len(h)}

\* A window that holds only the last exchange.
StageWindowShort(h) == LastN(h, 2)

\* openai_client.py line 70: the window the stage is read from.
StageWindow(h) == LastN(h, 4)

\* create_microbiome_analysis, lines 60-186: the system prompt selected.
SelectPrompt(conversation_history, user_question) ==
    IF Len(conversation_history) < 2 THEN "early"
    ELSE
    LET recent_content == RecentContent(StageWindow(conversation_history))
        has(k) == k \in recent_content
        q == Truthy(user_question)
    IN  IF /\ (has("antibiotic") \/ has("medication") \/ has("supplement"))
           /\ q
           /\ ~has("does this match your actual diet")
        THEN "diet"
        ELSE IF /\ has("does this match your actual diet")
                /\ q
                /\ ~has("energy levels")
                /\ ~has("digestive issues")
        THEN "energy"
        ELSE IF /\ has("energy levels")
                /\ has("does this match your energy levels")
                /\ q
                /\ ~has("digestive issues")
        THEN "digestive"
        ELSE IF /\ has("is this accurate")
                /\ has("digestive issues you experience")
                /\ q
        THEN "executive"
        ELSE "qa"

\* A list that holds the history only.
ConversationMessagesHistoryOnly(conversation_history, user_question) ==
    [i \in 1..Len(conversation_history) |->
        [role |-> IF conversation_history[i].role = "bot" THEN "assistant"
                  ELSE conversation_history[i].role,
         content |-> conversation_history[i].content]]

\* create_microbiome_analysis, lines 198-207: the messages that follow the
\* system messages in the list given to the model: the history with role
\* 'bot' mapped to 'assistant', then the user question if it is not empty.
ConversationMessages(conversation_history, user_question) ==
    [i \in 1..Len(conversation_history) |->
        [role |-> IF conversation_history[i].role = "bot" THEN "assistant"
                  ELSE conversation_history[i].role,
         content |-> conversation_history[i].content]]
    \o (IF Truthy(user_question)
        THEN <<[role |-> "user", content |-> user_question]>>
        ELSE <<>>)

\* check_and_send_followups, lines 351-365: whether the follow-ups are sent.
FollowupDue(conversation_history) ==
    LET recent_messages == LastN(conversation_history, 8)
        bots == {i \in 1..Len(recent_messages) :
                    recent_messages[i].role = "bot"}
    IN  /\ Len(recent_messages) >= 4
        /\ bots # {}
        /\ LET last_bot_message == recent_messages[Max(bots)].content.kws
           IN  /\ "executive summary" \in last_bot_message
               /\ "actionable insight" \notin last_bot_message
               /\ "feel free to ask" \notin last_bot_message

\* Lines 427-438: the insight prompt, and the prefix put before the answer.
InsightPrompt == T({"actionable insight"})
InsightContent(generated) == T(generated.kws \cup {"actionable insight"})

(***************************************************************************)
(*                      The environment and its bounds                     *)
(***************************************************************************)

\* Inbound messages created in a run of Spec, of SpecUpload, of SpecStage,
\* of SpecAnswer.
MaxPosted == 3
MaxUploads == 2
MaxStagePosted == 8
MaxAnswerPosted == 3
MaxFollowupPosted == 6
MaxRoutePosted == 3
\* Inbound messages Discord has created that on_message has not been
\* called for yet.
MaxInbox == 1

Tasks == {1, 2}
UserIds == {"u1", "u2"}

TasksOf ==
    IF mode \in {"stage", "answer", "followup", "route"} THEN {1} ELSE Tasks
UsersOf ==
    IF mode \in {"stage", "answer", "followup", "route", "retry", "reupload"}
    THEN {"u1"}
    ELSE UserIds
PostedLimit ==
    CASE mode = "stage" -> MaxStagePosted
      [] mode = "answer" -> MaxAnswerPosted
      [] mode = "followup" -> MaxFollowupPosted
      [] mode = "route" -> MaxRoutePosted
      [] mode \in {"upload", "retry", "reupload"} -> MaxUploads
      [] OTHER -> MaxPosted

\* What a user may type in a report thread.
UserTexts ==
    CASE mode = "stage" -> {PlainText, T({"supplement"})}
      [] mode = "answer" -> {PlainText, EmptyText}
      [] OTHER -> {PlainText}

\* The attachment lists of an upload.
AttachmentLists ==
    IF mode \in {"stage", "answer", "followup", "retry", "reupload"}
    THEN {<<"pdf">>} ELSE {<<"pdf">>, <<"pdf", "pdf">>}

\* The calls that may raise, named by call site: u_ in process_pdf_upload,
\* t_ in handle_thread_message, f_ in the follow-ups, om_ in on_message.
UploadFaults == {"u_user", "read", "thread", "u_send", "pdf", "db_report",
                 "embed", "db_chunks", "u_save", "u_reply", "om_reply"}
RetryFaults == {"exists", "temp_send", "rethread", "u_reply", "om_reply"}
ReuploadFaults == {"thread"}
AnswerFaults == {"q_embed", "gen", "t_reply", "t_send", "om_reply"}
FollowupFaults == {"gen", "f_send", "f_save"}
ThreadFaults == {"t_user", "t_save_user", "q_embed", "typing", "gen",
                 "t_reply", "t_send", "t_save", "f_send", "f_save", "om_reply"}

Faults ==
    CASE mode = "stage" -> {"gen"}
      [] mode = "answer" -> AnswerFaults
      [] mode = "followup" -> FollowupFaults
      [] mode = "route" -> {}
      [] mode = "upload" -> UploadFaults
      [] mode = "retry" -> RetryFaults
      [] mode = "reupload" -> ReuploadFaults
      [] OTHER -> ThreadFaults

Outcomes(point) == IF point \in Faults THEN {TRUE, FALSE} ELSE {TRUE}

\* What the generation call returns for a system prompt: the text ends as the
\* prompt prescribes, or the call raises.
GenResults(prompt) ==
    {[ok |-> TRUE, text |-> T(Prescribed(prompt))]}
        \cup (IF "gen" \in Faults
              THEN {[ok |-> FALSE, text |-> EmptyText]} ELSE {})

\* Segments a response is sent in (1 when len(content) <= 2000).
SegCounts ==
    CASE mode \in {"stage", "followup", "route"} -> {1}
      [] mode = "answer" -> {1, 2, 3}
      [] OTHER -> {1, 2}

\* Outcomes of Message.create_thread: created, HTTPException 160004
\* (thread already exists), another exception.
ThreadOutcomes ==
    {"ok"} \cup (IF "thread" \in Faults THEN {"error"} ELSE {})
           \cup (IF "exists" \in Faults THEN {"exists"} ELSE {})

\* Line 132: while counter <= 10.
MaxThreadAttempts == 10

\* The chunks process_pdf returns for a document.
DocChunks == 2

(***************************************************************************)
(*                     Database rows and Discord objects                   *)
(***************************************************************************)

TextChannel == [kind |-> "text", id |-> 0]
ThreadChannel(id) == [kind |-> "thread", id |-> id]

NoMsg == [id |-> 0, author |-> "", bot |-> FALSE, mention |-> FALSE,
          atts |-> <<>>, channel |-> TextChannel, text |-> EmptyText]

\* What str(e) of a raised exception can read.
Details == {"detail_a", "detail_b"}

\* The text of the apology a handler replies with when it caught an
\* exception whose str(e) is detail: process_pdf_upload line 245
\* interpolates str(e), handle_thread_message line 346 and on_message
\* line 520 send a fixed text.
ApologyText(site, detail) ==
    CASE site = "process_pdf_upload" ->
           [text |-> "Sorry, I couldn't process your PDF: ", detail |-> detail]
      [] site = "handle_thread_message" ->
           [text |-> "Sorry, I encountered an error processing your question. Please try again.",
            detail |-> "none"]
      [] OTHER ->
           [text |-> "Sorry, I encountered an error. Please try again.",
            detail |-> "none"]

NoApology == [text |-> "none", detail |-> "none"]

\* err is the call that raised into the handler's except clause, apology
\* the text that clause replies with, calls the collaborator calls the
\* handler has made so far, pending the segments of the response still to
\* send (by their place in the list chunks of line 287), emitted the
\* segments sent.
IdleTask == [pc |-> "idle", msg |-> NoMsg, ai |-> 0, counter |-> 0,
             thread |-> 0, report |-> 0, hist |-> <<>>, prompt |-> "none",
             gen |-> "none", resp |-> EmptyText, segs |-> 0, bot_msg |-> 0,
             out |-> <<>>, err |-> "none", apology |-> NoApology,
             calls |-> <<>>, pending |-> <<>>, emitted |-> <<>>]

\* models.py lines 24-40: a Report row; conversation_stage has its column
\* default, report_metadata is processed_data['metadata'].
ReportRow(id, user_id, thread_id) ==
    [id |-> id, user_id |-> user_id, thread_id |-> thread_id,
     report_metadata |-> {"sample_date", "sample_age_months"},
     conversation_stage |-> "initial"]

\* A row that loses the content.
MessageRowBlank(id, report_id, role, content) ==
    [id |-> id, report_id |-> report_id, role |-> role, content |-> EmptyText]

\* bot.py lines 93-107: the Message row save_message adds.
MessageRow(id, report_id, role, content) ==
    [id |-> id, report_id |-> report_id, role |-> role, content |-> content]

\* A save that replaces the rows of the report.
SaveMessageOverwriting(rows, row) ==
    {m \in rows : m.report_id # row.report_id} \cup {row}

\* save_message, lines 104-105: the row is added and committed.
SaveMessage(rows, row) == rows \cup {row}

\* The query with its order_by reversed.
HistoryRowsDescending(rows, report_id) ==
    LET ms == {m \in rows : m.report_id = report_id}
        ids == {m.id : m \in ms}
        nth(i) == CHOOSE x \in ids : Cardinality({y \in ids : y > x}) = i - 1
    IN  [i \in 1..Cardinality(ids) |-> CHOOSE m \in ms : m.id = nth(i)]

\* get_thread_conversation_history, lines 44-46: the query, the report's
\* messages ordered by Message.id.
HistoryRows(rows, report_id) ==
    LET ms == {m \in rows : m.report_id = report_id}
        ids == {m.id : m \in ms}
        nth(i) == CHOOSE x \in ids : Cardinality({y \in ids : y < x}) = i - 1
    IN  [i \in 1..Cardinality(ids) |-> CHOOSE m \in ms : m.id = nth(i)]

\* get_thread_conversation_history, lines 42-55: the rows of the query as
\* role and content.
HistoryOf(rows, report_id) ==
    LET found == HistoryRows(rows, report_id)
    IN  [i \in DOMAIN found |->
            [role |-> found[i].role, content |-> found[i].content]]

\* handle_thread_message line 250: the report of a thread, 0 when none.
ReportOfThread(thread_id) ==
    LET rs == {r \in 1..Len(reports) : reports[r].thread_id = thread_id}
    IN  IF rs = {} THEN 0 ELSE Min(rs)

(***************************************************************************)
(*                          The upload guard                               *)
(***************************************************************************)

\* on_message line 498.
GuardHeld(u) == u \in processing_users

\* An acquisition that records nothing.
GuardAcquireForgotten(held, u) == held

\* on_message line 502.
GuardAcquire(held, u) == held \cup {u}

\* A release that is skipped when process_pdf_upload raises.
GuardReleaseOnReturnOnly(held, u, raised) ==
    IF raised THEN held ELSE held \ {u}

\* on_message lines 503-506: process_pdf_upload has ended, by returning
\* (raised = FALSE) or by raising; the finally clause releases either way.
GuardRelease(held, u, raised) == held \ {u}

\* The positions of a task inside process_pdf_upload.
IngestPcs == {"u_read", "u_thread", "u_temp", "u_rethread", "u_fail_reply",
              "u_analyzing", "u_kb", "u_first", "u_apology"}

\* The positions of a task inside handle_thread_message after it has read
\* the history and before it has saved its response.
AnsweringPcs == {"t_typing", "t_reply", "t_send"}

Free(t) == task[t].pc = "idle"

Author(t) == task[t].msg.author

Sent(tk, what) == [tk EXCEPT !.out = Append(@, what)]

SetTask(t, tk) == task' = [task EXCEPT ![t] = tk]

Goto(t, tk, pc) == SetTask(t, [tk EXCEPT !.pc = pc])

\* on_message ends: the task and its locals are gone.
Finish(t) == SetTask(t, IdleTask)

\* The segment that is sent last of all.
SegmentToSendFromEnd(pending) == pending[Len(pending)]

\* Lines 318 and 321-322: the segment to send is chunks[0], then each
\* element of chunks[1:] in turn.
SegmentToSend(pending) == Head(pending)

\* The handler has sent the next segment, by message.reply (line 318) or by
\* message.channel.send (line 322).
Emitted(tk, via) ==
    [tk EXCEPT !.emitted = Append(@, [seg |-> SegmentToSend(tk.pending),
                                      via |-> via]),
               !.pending = Tail(@)]

\* The handler has called the collaborator fn in the step it is at.
Called(tk, fn, step, ok) ==
    [tk EXCEPT !.calls = Append(@, [fn |-> fn, step |-> step, ok |-> ok])]

\* The call fn raised into the except clause of the handler.
Raised(tk, fn) == [tk EXCEPT !.err = fn]

\* An exception reaches the except clause of on_message: line 520 awaits
\* the generic apology.
OmFailed(t, tk) ==
    \E d \in Details :
       Goto(t, [tk EXCEPT !.apology = ApologyText("on_message", d)],
            "om_apology")

(***************************************************************************)
(*                 Inbound messages and on_message's entry                 *)
(***************************************************************************)

\* Where an upload may be posted: the text channel, and in the re-upload
\* runs also the threads that exist.
UploadChannels ==
    {TextChannel}
        \cup (IF mode = "reupload"
              THEN {ThreadChannel(th) : th \in threads} ELSE {})

\* A thread the bot did not create: no Report carries it.
ForeignThread == ThreadChannel(0)

\* The attachment lists of a message of any kind.
RouteAttachmentLists == {<<>>, <<"img">>, <<"img", "pdf">>}

\* Discord creates a message of any kind: of a user or of a bot, with or
\* without a mention of the bot, with or without attachments, in the text
\* channel or in a thread.
PostMessage ==
    /\ mode = "route"
    /\ nPosted < PostedLimit
    /\ Len(inbox) < MaxInbox
    /\ \E u \in UsersOf, b \in BOOLEAN, mn \in BOOLEAN,
          a \in RouteAttachmentLists,
          c \in {TextChannel, ForeignThread}
                    \cup {ThreadChannel(th) : th \in threads} :
          inbox' = Append(inbox,
             [id |-> nextId, author |-> u, bot |-> b, mention |-> mn,
              atts |-> a, channel |-> c, text |-> PlainText])
    /\ nextId' = nextId + 1
    /\ nPosted' = nPosted + 1
    /\ UNCHANGED <<mode, processing_users, users, reports, report_chunks,
                   messages, threads, task, stageLog, chunkVars, call>>

\* Discord creates a message of a user that mentions the bot and carries
\* attachments.  In SpecStage the user uploads once.
PostUpload ==
    /\ mode \in {"bot", "upload", "retry", "reupload", "stage", "answer",
                "followup"}
    /\ nPosted < PostedLimit
    /\ Len(inbox) < MaxInbox
    /\ mode \in {"stage", "answer", "followup"} => nPosted = 0
    /\ \E u \in UsersOf, a \in AttachmentLists, c \in UploadChannels :
          inbox' = Append(inbox,
             [id |-> nextId, author |-> u, bot |-> FALSE, mention |-> TRUE,
              atts |-> a, channel |-> c, text |-> PlainText])
    /\ nextId' = nextId + 1
    /\ nPosted' = nPosted + 1
    /\ UNCHANGED <<mode, processing_users, users, reports, report_chunks,
                   messages, threads, task, stageLog, chunkVars, call>>

\* Discord creates a message of a user in an existing thread.  In SpecStage
\* the user writes when the bot has finished with the previous message.
PostInThread ==
    /\ mode \in {"bot", "stage", "answer", "followup"}
    /\ nPosted < PostedLimit
    /\ Len(inbox) < MaxInbox
    /\ mode \in {"stage", "followup"}
          => (inbox = <<>> /\ \A t \in TasksOf : Free(t))
    /\ \E u \in UsersOf, th \in threads, x \in UserTexts :
          inbox' = Append(inbox,
             [id |-> nextId, author |-> u, bot |-> FALSE, mention |-> FALSE,
              atts |-> <<>>, channel |-> ThreadChannel(th), text |-> x])
    /\ nextId' = nextId + 1
    /\ nPosted' = nPosted + 1
    /\ UNCHANGED <<mode, processing_users, users, reports, report_chunks,
                   messages, threads, task, stageLog, chunkVars, call>>

\* The first PDF attachment at position i or later (line 497), 0 when none.
NextPdf(m, i) ==
    LET c == {j \in i..Len(m.atts) : m.atts[j] = "pdf"}
    IN  IF c = {} THEN 0 ELSE Min(c)

\* on_message lines 496-507, from attachment i on: up to the first await.
UploadLoop(t, tk, i) ==
    LET j == NextPdf(tk.msg, i)
        u == tk.msg.author
    IN  IF j = 0
        THEN /\ Finish(t)
             /\ UNCHANGED <<processing_users, users>>
        ELSE IF GuardHeld(u)
        THEN \* line 499: the "please wait" reply is awaited
             /\ Goto(t, [tk EXCEPT !.ai = j], "wait_notice")
             /\ UNCHANGED <<processing_users, users>>
        ELSE \* lines 502-504 and 111-115: the guard is taken, the user row
             \* ensured, attachment.read() awaited
             \E ok \in Outcomes("u_user") :
                IF ok
                THEN /\ processing_users' = GuardAcquire(processing_users, u)
                     /\ users' = users \cup {u}
                     /\ Goto(t, [tk EXCEPT !.ai = j], "u_read")
                ELSE /\ processing_users' =
                          GuardRelease(GuardAcquire(processing_users, u),
                                       u, TRUE)
                     /\ users' = users
                     /\ OmFailed(t, [tk EXCEPT !.ai = j])

\* An entry that makes sure of the User row before it looks for the Report.
ThreadEntryUserFirst(t, tk) ==
    /\ users' = users \cup {tk.msg.author}
    /\ Finish(t)
    /\ UNCHANGED messages

\* handle_thread_message lines 249-271, up to the await of typing().
ThreadEntry(t, tk) ==
    LET m == tk.msg
        rid == ReportOfThread(m.channel.id)
    IN  IF rid = 0
        THEN /\ Finish(t)
             /\ UNCHANGED <<users, messages>>
        ELSE \E okU \in Outcomes("t_user"), okM \in Outcomes("t_save_user"),
                okE \in Outcomes("q_embed") :
               IF ~okU
               THEN /\ OmFailed(t, tk)
                    /\ UNCHANGED <<users, messages>>
               ELSE IF ~okM
               THEN /\ users' = users \cup {m.author}
                    /\ OmFailed(t, tk)
                    /\ UNCHANGED messages
               ELSE /\ users' = users \cup {m.author}
                    /\ messages' = SaveMessage(messages,
                          MessageRow(m.id, rid, "user", m.text))
                    /\ Goto(t, Called([tk EXCEPT !.report = rid,
                                             !.hist = HistoryOf(messages', rid)],
                                       "get_embedding", "answer", okE),
                            "t_typing")

\* A routing that looks at the channel before the mention.
RouteThreadFirst(m) ==
    IF m.bot THEN "ignored"
    ELSE IF m.channel.kind = "thread" THEN "thread"
    ELSE IF m.mention /\ m.atts # <<>> THEN "upload"
    ELSE IF m.mention THEN "greeting"
    ELSE "none"

\* on_message lines 489-516: the branch a message takes.
Route(m) ==
    IF m.bot THEN "ignored"
    ELSE IF m.mention /\ m.atts # <<>> THEN "upload"
    ELSE IF m.mention THEN "greeting"
    ELSE IF m.channel.kind = "thread" THEN "thread"
    ELSE "none"

\* on_message is called for the oldest inbound message (lines 487-516).
Start(t) ==
    /\ mode \in {"bot", "upload", "retry", "reupload", "stage", "answer",
                "followup", "route"}
    /\ t \in TasksOf
    /\ Free(t)
    /\ \A t2 \in TasksOf : Free(t2) => ~(t2 < t)
    /\ inbox # <<>>
    /\ inbox' = Tail(inbox)
    /\ LET m == Head(inbox)
           tk == [IdleTask EXCEPT !.msg = m]
       IN  CASE Route(m) = "upload" ->
                  /\ UploadLoop(t, tk, 1)
                  /\ UNCHANGED messages
             [] Route(m) = "greeting" ->
                  /\ Goto(t, tk, "greet")
                  /\ UNCHANGED <<processing_users, users, messages>>
             [] Route(m) = "thread" ->
                  /\ ThreadEntry(t, tk)
                  /\ UNCHANGED processing_users
             [] OTHER ->
                  /\ Finish(t)
                  /\ UNCHANGED <<processing_users, users, messages>>
    /\ UNCHANGED <<mode, reports, report_chunks, threads, nextId, nPosted,
                   stageLog, chunkVars, call>>

(***************************************************************************)
(*                 process_pdf_upload (bot.py lines 109-245)               *)
(***************************************************************************)

\* The exception leaves process_pdf_upload without the reply of line 245.
PdfFailedUnreported(t, tk) == Goto(t, tk, "om_apology")

\* An exception inside the try of process_pdf_upload: line 245 awaits the
\* apology reply.
PdfFailed(t, tk) ==
    \E d \in Details :
       Goto(t, [tk EXCEPT !.apology = ApologyText("process_pdf_upload", d)],
            "u_apology")

\* An end of process_pdf_upload after which the loop goes on to the next
\* PDF attachment of the message.
EndUploadContinuing(t, tk, raised) ==
    IF raised \/ NextPdf(tk.msg, tk.ai + 1) = 0
    THEN /\ processing_users' =
              GuardRelease(processing_users, tk.msg.author, raised)
         /\ IF raised THEN OmFailed(t, tk) ELSE Finish(t)
    ELSE /\ processing_users' = processing_users
         /\ Goto(t, [IdleTask EXCEPT !.msg = tk.msg,
                                     !.ai = NextPdf(tk.msg, tk.ai + 1)],
                 "u_read")

\* process_pdf_upload has ended: the finally clause of on_message (line 506)
\* runs; on a return on_message returns (line 507), on an exception its
\* handler awaits the generic reply (line 520).
EndUpload(t, tk, raised) ==
    /\ processing_users' = GuardRelease(processing_users, tk.msg.author, raised)
    /\ IF raised THEN OmFailed(t, tk) ELSE Finish(t)

\* line 115: attachment.read() has returned or raised; line 125 awaits
\* message.create_thread.
ResumeRead(t) ==
    /\ task[t].pc = "u_read"
    /\ \E ok \in Outcomes("read") :
          IF ok THEN Goto(t, task[t], "u_thread")
          ELSE PdfFailed(t, Raised(task[t], "read"))
    /\ UNCHANGED <<mode, processing_users, users, reports, report_chunks,
                   messages, threads, nextId, nPosted, inbox, stageLog,
                   chunkVars, call>>

\* A loop that allows one attempt more.
RetryThreadOnceMore(t, tk) ==
    IF tk.counter <= MaxThreadAttempts + 1
    THEN Goto(t, tk, "u_temp")
    ELSE Goto(t, tk, "u_fail_reply")

\* Lines 132-136: the loop test and the await of the temporary message, or
\* lines 145-146 when the attempts are used up.
RetryThread(t, tk) ==
    IF tk.counter <= MaxThreadAttempts
    THEN Goto(t, tk, "u_temp")
    ELSE Goto(t, tk, "u_fail_reply")

\* line 125: message.create_thread has returned or raised.  The thread of a
\* message carries the message's id.
ResumeThread(t) ==
    /\ task[t].pc = "u_thread"
    /\ \E r \in ThreadOutcomes :
          CASE r = "ok" ->
                 /\ threads' = threads \cup {task[t].msg.id}
                 /\ Goto(t, [task[t] EXCEPT !.thread = task[t].msg.id],
                         "u_analyzing")
            [] r = "exists" ->
                 /\ RetryThread(t, [task[t] EXCEPT !.counter = 1])
                 /\ UNCHANGED threads
            [] OTHER ->
                 /\ PdfFailed(t, Raised(task[t], "create_thread"))
                 /\ UNCHANGED threads
    /\ UNCHANGED <<mode, processing_users, users, reports, report_chunks,
                   messages, nextId, nPosted, inbox, stageLog, chunkVars, call>>

\* line 136: the temporary message has been sent, or the send raised
\* HTTPException (line 142).
ResumeTemp(t) ==
    /\ task[t].pc = "u_temp"
    /\ \E ok \in Outcomes("temp_send") :
          IF ok
          THEN /\ nextId' = nextId + 1
               /\ Goto(t, Sent([task[t] EXCEPT !.thread = nextId], "temp"),
                       "u_rethread")
          ELSE /\ RetryThread(t, [task[t] EXCEPT !.counter = @ + 1])
               /\ UNCHANGED nextId
    /\ UNCHANGED <<mode, processing_users, users, reports, report_chunks,
                   messages, threads, nPosted, inbox, stageLog, chunkVars, call>>

\* line 137: temp_msg.create_thread has returned, or raised HTTPException.
ResumeRethread(t) ==
    /\ task[t].pc = "u_rethread"
    /\ \E ok \in Outcomes("rethread") :
          IF ok
          THEN /\ threads' = threads \cup {task[t].thread}
               /\ Goto(t, task[t], "u_analyzing")
          ELSE /\ RetryThread(t, [task[t] EXCEPT !.counter = @ + 1,
                                                 !.thread = 0])
               /\ UNCHANGED threads
    /\ UNCHANGED <<mode, processing_users, users, reports, report_chunks,
                   messages, nextId, nPosted, inbox, stageLog, chunkVars, call>>

\* line 146: the "unable to create thread" reply has returned (line 147
\* returns) or raised (caught at line 243).
ResumeFailReply(t) ==
    /\ task[t].pc = "u_fail_reply"
    /\ \E ok \in Outcomes("u_reply") :
          IF ok
          THEN EndUpload(t, Sent(task[t], "unable"), FALSE)
          ELSE /\ PdfFailed(t, Raised(task[t], "reply"))
               /\ UNCHANGED processing_users
    /\ UNCHANGED <<mode, users, reports, report_chunks, messages, threads,
                   nextId, nPosted, inbox, stageLog, chunkVars, call>>

\* The calls of one stretch of code that may fail: "ok", or the label of
\* the first call that raises, for the calls whose fault is enabled.
FirstFailure(calls) == {"ok"} \cup {c[1] : c \in {d \in calls : d[2] \in Faults}}

\* line 152: "Analyzing" has been sent; lines 154-175: process_pdf, the
\* Report row, and the await of the second notice.
ResumeAnalyzing(t) ==
    /\ task[t].pc = "u_analyzing"
    /\ \E f \in FirstFailure({<<"send", "u_send">>, <<"process_pdf", "pdf">>,
                             <<"commit", "db_report">>}) :
          IF f = "ok"
          THEN /\ reports' = Append(reports,
                     ReportRow(Len(reports) + 1, task[t].msg.author,
                               task[t].thread))
               /\ Goto(t, Sent([task[t] EXCEPT !.report = Len(reports) + 1],
                               "analyzing"), "u_kb")
          ELSE /\ PdfFailed(t, Raised(IF f = "send" THEN task[t]
                                      ELSE Sent(task[t], "analyzing"), f))
               /\ UNCHANGED reports
    /\ UNCHANGED <<mode, processing_users, users, report_chunks, messages,
                   threads, nextId, nPosted, inbox, stageLog, chunkVars, call>>

\* line 175: the second notice has been sent; lines 177-220: the chunks are
\* embedded and committed, date_response is built and its send awaited.  A
\* chunk whose embedding call raises is skipped (lines 197-199).
ResumeKb(t) ==
    /\ task[t].pc = "u_kb"
    /\ \E f \in FirstFailure({<<"send", "u_send">>, <<"commit", "db_chunks">>}),
          embedded \in (IF "embed" \in Faults
                        THEN SUBSET (0..(DocChunks - 1))
                        ELSE {0..(DocChunks - 1)}) :
          IF f = "ok"
          THEN /\ report_chunks' = report_chunks \cup
                     {[report_id |-> task[t].report, chunk_idx |-> i] :
                         i \in embedded}
               /\ Goto(t, Sent(task[t], "kb"), "u_first")
          ELSE /\ embedded = 0..(DocChunks - 1)
               /\ PdfFailed(t, Raised(IF f = "send" THEN task[t]
                                      ELSE Sent(task[t], "kb"), f))
               /\ UNCHANGED report_chunks
    /\ UNCHANGED <<mode, processing_users, users, reports, messages, threads,
                   nextId, nPosted, inbox, stageLog, chunkVars, call>>

\* line 220: date_response has been sent; lines 223-241: the upload message
\* and the bot's first message are saved and process_pdf_upload returns.
ResumeFirst(t) ==
    /\ task[t].pc = "u_first"
    /\ \E f \in FirstFailure({<<"send", "u_send">>, <<"save_user", "u_save">>,
                             <<"save_bot", "u_save">>}) :
          LET tk == Sent([task[t] EXCEPT !.bot_msg = nextId], "first")
              user_row == MessageRow(task[t].msg.id, task[t].report,
                                     "user", UploadNote)
              bot_row == MessageRow(nextId, task[t].report,
                                    "bot", DateResponse)
          IN  CASE f = "ok" ->
                     /\ nextId' = nextId + 1
                     /\ messages' = SaveMessage(SaveMessage(messages, user_row),
                                             bot_row)
                     /\ EndUpload(t, tk, FALSE)
                [] f = "send" ->
                     /\ PdfFailed(t, Raised(task[t], f))
                     /\ UNCHANGED <<nextId, messages, processing_users>>
                [] f = "save_user" ->
                     /\ nextId' = nextId + 1
                     /\ PdfFailed(t, Raised(tk, f))
                     /\ UNCHANGED <<messages, processing_users>>
                [] OTHER ->
                     /\ nextId' = nextId + 1
                     /\ messages' = SaveMessage(messages, user_row)
                     /\ PdfFailed(t, Raised(tk, f))
                     /\ UNCHANGED processing_users
    /\ UNCHANGED <<mode, users, reports, report_chunks, threads, nPosted,
                   inbox, stageLog, chunkVars, call>>

\* line 245: the apology of process_pdf_upload has been sent (the function
\* returns) or the reply raised (the exception leaves the function).
ResumeApology(t) ==
    /\ task[t].pc = "u_apology"
    /\ \E ok \in Outcomes("u_reply") :
          IF ok
          THEN EndUpload(t, Sent(task[t], "pdf_apology"), FALSE)
          ELSE EndUpload(t, task[t], TRUE)
    /\ UNCHANGED <<mode, users, reports, report_chunks, messages, threads,
                   nextId, nPosted, inbox, stageLog, chunkVars, call>>

\* line 499: the "please wait" reply has been sent; line 500 continues with
\* the next attachment.  A reply that raises is caught at line 518.
ResumeWaitNotice(t) ==
    /\ task[t].pc = "wait_notice"
    /\ \E ok \in Outcomes("om_reply") :
          IF ok
          THEN UploadLoop(t, Sent(task[t], "wait"), task[t].ai + 1)
          ELSE /\ OmFailed(t, task[t])
               /\ UNCHANGED <<processing_users, users>>
    /\ UNCHANGED <<mode, reports, report_chunks, messages, threads, nextId,
                   nPosted, inbox, stageLog, chunkVars, call>>

\* line 511: the greeting has been sent (line 512 returns), or the reply
\* raised and is caught at line 518.
ResumeGreet(t) ==
    /\ task[t].pc = "greet"
    /\ \E ok \in Outcomes("om_reply") :
          IF ok
          THEN /\ nextId' = nextId + 1
               /\ Finish(t)
          ELSE /\ OmFailed(t, task[t])
               /\ UNCHANGED nextId
    /\ UNCHANGED <<mode, processing_users, users, reports, report_chunks,
                   messages, threads, nPosted, inbox, stageLog, chunkVars,
                   call>>

\* line 520: the generic apology of on_message has been sent, or raised;
\* on_message ends either way (line 523).
ResumeOmApology(t) ==
    /\ task[t].pc = "om_apology"
    /\ \E ok \in Outcomes("om_reply") :
          Finish(t)
    /\ UNCHANGED <<mode, processing_users, users, reports, report_chunks,
                   messages, threads, nextId, nPosted, inbox, stageLog,
                   chunkVars, call>>

(***************************************************************************)
(*               handle_thread_message (bot.py lines 247-346)              *)
(***************************************************************************)

\* An except clause that calls the generation again when it failed.
AnswerFailedRetrying(t, tk) ==
    IF tk.gen = "failed" /\ Len(tk.calls) < 4
    THEN Goto(t, tk, "t_typing")
    ELSE Goto(t, tk, "t_apology")

\* An except clause that swallows the exception and returns.
AnswerFailedSilently(t, tk) == Finish(t)

\* An exception inside the try of handle_thread_message: line 346 awaits
\* the apology reply.
AnswerFailed(t, tk) ==
    \E d \in Details :
       Goto(t, [tk EXCEPT !.apology = ApologyText("handle_thread_message", d)],
            "t_apology")

\* line 275: typing() has been entered; lines 276-285/318: the generation
\* call, and the await of the reply that carries the first segment.
ResumeTyping(t) ==
    /\ task[t].pc = "t_typing"
    /\ \E okT \in Outcomes("typing") :
          IF ~okT
          THEN /\ AnswerFailed(t, task[t])
               /\ UNCHANGED stageLog
          ELSE LET p == SelectPrompt(task[t].hist, task[t].msg.text)
               IN  \E g \in GenResults(p), n \in SegCounts :
                     /\ stageLog' = Append(stageLog,
                           [report |-> task[t].report, msg |-> task[t].msg.id,
                            text |-> task[t].msg.text, prompt |-> p,
                            ok |-> g.ok])
                     /\ LET tk == Called(task[t], "create_microbiome_analysis",
                                         "answer", g.ok)
                        IN  IF g.ok
                            THEN Goto(t, [tk EXCEPT !.prompt = p,
                                            !.gen = "ok", !.resp = g.text,
                                            !.segs = n - 1,
                                            !.pending = [i \in 1..n |-> i]],
                                 "t_reply")
                            ELSE /\ n = 1
                                 /\ AnswerFailed(t, [tk EXCEPT !.prompt = p,
                                                        !.gen = "failed"])
    /\ UNCHANGED <<mode, processing_users, users, reports, report_chunks,
                   messages, threads, nextId, nPosted, inbox, chunkVars, call>>

\* A follow-up round in which a failed insight reaches the except clause of
\* handle_thread_message.
StartFollowupsAborting(t, tk) ==
    \E g \in GenResults(SelectPrompt(tk.hist, InsightPrompt)) :
       LET tk2 == Called(tk, "create_microbiome_analysis", "insight", g.ok)
       IN  IF g.ok
           THEN Goto(t, [tk2 EXCEPT !.resp = InsightContent(g.text)],
                     "f_insight")
           ELSE AnswerFailed(t, tk2)

\* send_actionable_insight lines 425-441, entered from
\* check_and_send_followups (line 372): the generation call, then the await
\* of the send; an exception is caught (line 456) and line 377 sleeps.
StartFollowups(t, tk) ==
    \E g \in GenResults(SelectPrompt(tk.hist, InsightPrompt)) :
       LET tk2 == Called(tk, "create_microbiome_analysis", "insight", g.ok)
       IN  IF g.ok
           THEN Goto(t, [tk2 EXCEPT !.resp = InsightContent(g.text)],
                     "f_insight")
           ELSE Goto(t, tk2, "f_sleep")

\* lines 324-346, after the last segment has been sent: the bot message is
\* saved and the follow-ups are checked.
AfterSends(t, tk) ==
    \E ok \in Outcomes("t_save") :
       IF ok
       THEN /\ messages' = SaveMessage(messages,
                  MessageRow(tk.bot_msg, tk.report, "bot", tk.resp))
            /\ IF FollowupDue(tk.hist)
               THEN StartFollowups(t, tk)
               ELSE Finish(t)
       ELSE /\ AnswerFailed(t, tk)
            /\ UNCHANGED messages

\* line 285 / 318: the reply has returned (bot_message) or raised.
ResumeReply(t) ==
    /\ task[t].pc = "t_reply"
    /\ \E ok \in Outcomes("t_reply") :
          IF ok
          THEN /\ nextId' = nextId + 1
               /\ LET tk == Emitted(Sent([task[t] EXCEPT !.bot_msg = nextId],
                                          "reply"), "reply")
                  IN  IF tk.segs > 0
                      THEN /\ Goto(t, tk, "t_send")
                           /\ UNCHANGED messages
                      ELSE AfterSends(t, tk)
          ELSE /\ AnswerFailed(t, task[t])
               /\ UNCHANGED <<nextId, messages>>
    /\ UNCHANGED <<mode, processing_users, users, reports, report_chunks,
                   threads, nPosted, inbox, stageLog, chunkVars, call>>

\* line 322: a later segment has been sent, or the send raised.
ResumeSend(t) ==
    /\ task[t].pc = "t_send"
    /\ \E ok \in Outcomes("t_send") :
          IF ok
          THEN /\ nextId' = nextId + 1
               /\ LET tk == Emitted(Sent([task[t] EXCEPT !.segs = @ - 1],
                                          "segment"), "send")
                  IN  IF tk.segs > 0
                      THEN /\ Goto(t, tk, "t_send")
                           /\ UNCHANGED messages
                      ELSE AfterSends(t, tk)
          ELSE /\ AnswerFailed(t, task[t])
               /\ UNCHANGED <<nextId, messages>>
    /\ UNCHANGED <<mode, processing_users, users, reports, report_chunks,
                   threads, nPosted, inbox, stageLog, chunkVars, call>>

\* line 441: the insight has been sent, or the send raised; lines 444-457:
\* it is saved (a failure is caught), and line 377 sleeps.
ResumeInsight(t) ==
    /\ task[t].pc = "f_insight"
    /\ \E f \in FirstFailure({<<"send", "f_send">>, <<"save", "f_save">>}) :
          CASE f = "ok" ->
                 /\ nextId' = nextId + 1
                 /\ messages' = SaveMessage(messages,
                       MessageRow(nextId, task[t].report, "bot",
                                  task[t].resp))
                 /\ Goto(t, Sent(task[t], "insight"), "f_sleep")
            [] f = "send" ->
                 /\ Goto(t, task[t], "f_sleep")
                 /\ UNCHANGED <<nextId, messages>>
            [] OTHER ->
                 /\ nextId' = nextId + 1
                 /\ Goto(t, Sent(task[t], "insight"), "f_sleep")
                 /\ UNCHANGED messages
    /\ UNCHANGED <<mode, processing_users, users, reports, report_chunks,
                   threads, nPosted, inbox, stageLog, chunkVars, call>>

\* line 377: asyncio.sleep(2) is over; line 463 awaits the invitation.
ResumeSleep(t) ==
    /\ task[t].pc = "f_sleep"
    /\ Goto(t, task[t], "f_qa")
    /\ UNCHANGED <<mode, processing_users, users, reports, report_chunks,
                   messages, threads, nextId, nPosted, inbox, stageLog,
                   chunkVars, call>>

\* line 463: the invitation has been sent, or the send raised; lines
\* 466-476: it is saved (a failure is caught); the handler ends.
ResumeQa(t) ==
    /\ task[t].pc = "f_qa"
    /\ \E f \in FirstFailure({<<"send", "f_send">>, <<"save", "f_save">>}) :
          CASE f = "ok" ->
                 /\ nextId' = nextId + 1
                 /\ messages' = SaveMessage(messages,
                       MessageRow(nextId, task[t].report, "bot",
                                  QaInvitation))
                 /\ Finish(t)
            [] f = "send" ->
                 /\ Finish(t)
                 /\ UNCHANGED <<nextId, messages>>
            [] OTHER ->
                 /\ nextId' = nextId + 1
                 /\ Finish(t)
                 /\ UNCHANGED messages
    /\ UNCHANGED <<mode, processing_users, users, reports, report_chunks,
                   threads, nPosted, inbox, stageLog, chunkVars, call>>

\* line 346: the apology has been sent (the handler ends), or the reply
\* raised and on_message's handler (line 520) awaits its own.
ResumeAnswerApology(t) ==
    /\ task[t].pc = "t_apology"
    /\ \E ok \in Outcomes("t_reply") :
          IF ok
          THEN Finish(t)
          ELSE OmFailed(t, task[t])
    /\ UNCHANGED <<mode, processing_users, users, reports, report_chunks,
                   messages, threads, nextId, nPosted, inbox, stageLog,
                   chunkVars, call>>

(***************************************************************************)
(*                            Specifications                               *)
(***************************************************************************)

InitBotVars ==
    /\ processing_users = {}
    /\ users = {}
    /\ reports = <<>>
    /\ report_chunks = {}
    /\ messages = {}
    /\ threads = {}
    /\ nextId = 1
    /\ nPosted = 0
    /\ inbox = <<>>
    /\ task = [t \in Tasks |-> IdleTask]
    /\ stageLog = <<>>

\* No call of a function checked on its own is in hand.
NoCall == [fn |-> "none"]

InitChunkVars ==
    /\ text = <<>>
    /\ chunk_size = 1
    /\ chunk_overlap = 0
    /\ cpc = "idle"
    /\ start = 0
    /\ chunk_idx = 0
    /\ chunks = <<>>
    /\ call = NoCall

Init == mode = "bot" /\ InitBotVars /\ InitChunkVars

InitStage == mode = "stage" /\ InitBotVars /\ InitChunkVars

\* In Spec the calls of process_pdf_upload do not raise, and MaxPosted
\* messages do not reach the follow-ups: the actions of those paths are in
\* NextUpload and NextStage.
Next ==
    \/ PostUpload
    \/ PostInThread
    \/ \E t \in Tasks :
         \/ Start(t)
         \/ ResumeRead(t)
         \/ ResumeThread(t)
         \/ ResumeAnalyzing(t)
         \/ ResumeKb(t)
         \/ ResumeFirst(t)
         \/ ResumeWaitNotice(t)
         \/ ResumeOmApology(t)
         \/ ResumeTyping(t)
         \/ ResumeReply(t)
         \/ ResumeSend(t)
         \/ ResumeAnswerApology(t)

NextStage ==
    \/ PostUpload
    \/ PostInThread
    \/ \E t \in Tasks :
         \/ Start(t)
         \/ ResumeRead(t)
         \/ ResumeThread(t)
         \/ ResumeAnalyzing(t)
         \/ ResumeKb(t)
         \/ ResumeFirst(t)
         \/ ResumeTyping(t)
         \/ ResumeReply(t)
         \/ ResumeInsight(t)
         \/ ResumeSleep(t)
         \/ ResumeQa(t)
         \/ ResumeAnswerApology(t)

InitUpload ==
    /\ mode \in {"upload", "retry", "reupload"}
    /\ InitBotVars
    /\ InitChunkVars

NextUpload ==
    \/ PostUpload
    \/ \E t \in Tasks :
         \/ Start(t)
         \/ ResumeRead(t)
         \/ ResumeThread(t)
         \/ ResumeTemp(t)
         \/ ResumeRethread(t)
         \/ ResumeFailReply(t)
         \/ ResumeAnalyzing(t)
         \/ ResumeKb(t)
         \/ ResumeFirst(t)
         \/ ResumeApology(t)
         \/ ResumeWaitNotice(t)
         \/ ResumeOmApology(t)

\* One upload, then messages in its thread answered by one handler at a
\* time, with responses of up to three segments.
InitAnswer == mode = "answer" /\ InitBotVars /\ InitChunkVars

NextAnswer ==
    \/ PostUpload
    \/ PostInThread
    \/ \E t \in Tasks :
         \/ Start(t)
         \/ ResumeRead(t)
         \/ ResumeThread(t)
         \/ ResumeAnalyzing(t)
         \/ ResumeKb(t)
         \/ ResumeFirst(t)
         \/ ResumeTyping(t)
         \/ ResumeReply(t)
         \/ ResumeSend(t)
         \/ ResumeAnswerApology(t)
         \/ ResumeOmApology(t)

Spec == Init /\ [][Next]_vars

SpecAnswer == InitAnswer /\ [][NextAnswer]_vars

\* Messages of every kind, routed by on_message; no call fails.
InitRoute == mode = "route" /\ InitBotVars /\ InitChunkVars

NextRoute ==
    \/ PostMessage
    \/ \E t \in Tasks :
         \/ Start(t)
         \/ ResumeRead(t)
         \/ ResumeThread(t)
         \/ ResumeAnalyzing(t)
         \/ ResumeKb(t)
         \/ ResumeFirst(t)
         \/ ResumeGreet(t)
         \/ ResumeTyping(t)
         \/ ResumeReply(t)

SpecRoute == InitRoute /\ [][NextRoute]_vars

\* One upload, then messages in its thread up to the follow-up round, in
\* which the generation, the sends and the saves may fail.
InitFollowup == mode = "followup" /\ InitBotVars /\ InitChunkVars

SpecFollowup == InitFollowup /\ [][NextStage]_vars

SpecUpload == InitUpload /\ [][NextUpload]_vars

SpecStage == InitStage /\ [][NextStage]_vars

(***************************************************************************)
(*                    Properties of the upload guard                       *)
(***************************************************************************)

\* The tasks inside process_pdf_upload for user u.
Ingesting(u) == {t \in Tasks : task[t].pc \in IngestPcs /\ Author(t) = u}

\* C1: at any instant at most one process_pdf_upload is in flight per user,
\* under every interleaving of the tasks, and the user of an ingestion in
\* flight is in processing_users.
C1_OneIngestionPerUser ==
    \A u \in UserIds :
       /\ Cardinality(Ingesting(u)) <= 1
       /\ Ingesting(u) # {} => u \in processing_users

\* A second upload of a user is at the "please wait" reply while the first
\* is inside process_pdf_upload.
C1_Witness ==
    \E t1 \in Tasks, t2 \in Tasks :
       /\ task[t1].pc \in IngestPcs
       /\ task[t2].pc = "wait_notice"
       /\ Author(t1) = Author(t2)

\* C2: the guard is released on every exit of process_pdf_upload: a user is
\* in processing_users only while one of the user's ingestions is in flight,
\* so an upload that starts when none is in flight finds the guard free.
C2_ReleasedOnEveryExit ==
    \A u \in processing_users : Ingesting(u) # {}

\* process_pdf_upload has ended by raising (its apology reply failed after
\* the "Analyzing" notice was sent) and the user is no longer guarded.
C2_Witness ==
    \E t \in Tasks :
       /\ task[t].pc = "om_apology"
       /\ task[t].out = <<"analyzing">>
       /\ Author(t) \notin processing_users

(***************************************************************************)
(*                 Properties of the conversation stages                   *)
(***************************************************************************)

\* C3: two handlers of the same report are never both between reading the
\* history and saving the response.
C3_Serialized ==
    \A t1 \in Tasks, t2 \in Tasks :
       (t1 # t2 /\ task[t1].pc \in AnsweringPcs /\ task[t2].pc \in AnsweringPcs)
          => task[t1].report # task[t2].report

\* The first n thread messages carry none of the searched phrases, and the
\* first n - 1 were answered.
OnScript(n) ==
    /\ n <= Len(stageLog)
    /\ \A j \in 1..n : stageLog[j].text = PlainText
    /\ \A j \in 1..(n - 1) : stageLog[j].ok

\* The prompt the code selects for the i-th message on script.
Script(i) ==
    CASE i = 1 -> "diet"
      [] i = 2 -> "energy"
      [] i = 3 -> "digestive"
      [] i = 4 -> "executive"
      [] i = 5 -> "executive"
      [] OTHER -> "qa"

FreshHistory ==
    <<[role |-> "user", content |-> UploadNote],
      [role |-> "bot", content |-> DateResponse]>>

C5_OpenQaTerminal ==
    \A i \in 1..Len(stageLog), j \in 1..Len(stageLog) :
       (i < j /\ stageLog[i].prompt = "qa" /\ stageLog[i].ok
              /\ stageLog[i].report = stageLog[j].report)
          => stageLog[j].prompt = "qa"

BotRows == {m \in messages : m.role = "bot"}

StageKeys == {"antibiotics_response", "diet_response", "symptoms_response"}

MaxTextLen == 7
MaxChunkSize == 6

\* The characters chunk_text tells apart: '.', '\n', other whitespace, and
\* any other character.
Chars == {"a", ".", " ", "\n"}
Whitespace == {" ", "\n"}

\* "A. B. C.", the boundary-degenerate text of the spec's scenario.
ScenarioText == <<"a", ".", " ", "a", ".", " ", "a", ".">>
ScenarioConfig == [size |-> 4, overlap |-> 1]

Texts == UNION {[1..n -> Chars] : n \in 0..MaxTextLen}

\* str.rfind(ch, lo, hi) on 0-based positions: the highest i in [lo, hi)
\* with t[i] = ch, or -1.
rfind(t, ch, lo, hi) ==
    LET hits == {i \in lo..(hi - 1) : i < Len(t) /\ t[i + 1] = ch}
    IN  IF hits = {} THEN -1 ELSE Max(hits)

\* t[lo:hi] with Python's clipping of hi to len(t).
Slice(t, lo, hi) == SubSeq(t, lo + 1, Min({hi, Len(t)}))

\* str.strip(): leading and trailing whitespace removed.
strip(s) ==
    LET keep == {i \in 1..Len(s) : s[i] \notin Whitespace}
    IN  IF keep = {} THEN <<>> ELSE SubSeq(s, Min(keep), Max(keep))

\* A cut after the last period of the window wherever it lies.
ChunkEndAtAnyPeriod(t, S, st) ==
    LET end0 == st + S
        sentence_break == rfind(t, ".", st, end0)
    IN  IF end0 < Len(t) /\ sentence_break > st
        THEN sentence_break + 1
        ELSE end0

\* The end position of the fragment starting at st (lines 82-94).
ChunkEnd(t, S, st) ==
    LET end0 == st + S
        sentence_break == rfind(t, ".", st, end0)
        para_break == rfind(t, "\n", st, end0)
    IN  IF end0 < Len(t)
        THEN IF sentence_break > st + (S \div 2) THEN sentence_break + 1
             ELSE IF para_break > st + (S \div 2) THEN para_break
             ELSE end0
        ELSE end0

\* Line 98: a fragment is kept when its stripped content is non-empty.
KeepChunkAlways(content) == TRUE
KeepChunk(content) == content # <<>>

\* A next start that steps back into the fragment just cut.
NextStartOverlapping(st, end, S, O) == Min({st + S - O, end})

\* Line 108: the next start position.
NextStartBackOff(st, end, S, O) == end - O
NextStart(st, end, S, O) == Max({st + S - O, end})

\* chunk_text is called (lines 73-78): the empty text returns [] at once.
ChunkCall ==
    /\ mode = "chunk"
    /\ cpc = "idle"
    /\ start' = 0
    /\ chunk_idx' = 0
    /\ chunks' = <<>>
    /\ cpc' = IF Len(text) = 0 THEN "done" ELSE "loop"
    /\ UNCHANGED <<mode, botVars, text, chunk_size, chunk_overlap, call>>

\* One iteration of the while loop (lines 80-112).
ChunkStep ==
    /\ cpc = "loop"
    /\ start < Len(text)
    /\ LET end == ChunkEnd(text, chunk_size, start)
           chunk_content == strip(Slice(text, start, end))
           keep == KeepChunk(chunk_content)
           nstart == NextStart(start, end, chunk_size, chunk_overlap)
       IN  /\ chunks' = IF keep
                        THEN Append(chunks, [chunk_idx |-> chunk_idx,
                                             content |-> chunk_content,
                                             start_pos |-> start,
                                             end_pos |-> end])
                        ELSE chunks
           /\ chunk_idx' = IF keep THEN chunk_idx + 1 ELSE chunk_idx
           /\ start' = nstart
           /\ cpc' = IF nstart < Len(text) THEN "loop" ELSE "done"
    /\ UNCHANGED <<mode, botVars, text, chunk_size, chunk_overlap, call>>

InitChunk ==
    /\ mode = "chunk"
    /\ InitBotVars
    /\ \/ /\ text \in Texts
          /\ chunk_size \in 1..MaxChunkSize
          /\ chunk_overlap \in 0..(chunk_size - 1)
       \/ /\ text = ScenarioText
          /\ chunk_size = ScenarioConfig.size
          /\ chunk_overlap = ScenarioConfig.overlap
    /\ cpc = "idle"
    /\ start = 0
    /\ chunk_idx = 0
    /\ chunks = <<>>
    /\ call = NoCall

NextChunk == ChunkCall \/ ChunkStep

SpecChunk == InitChunk /\ [][NextChunk]_vars

(***************************************************************************)
(*                      Properties of chunk_text                           *)
(***************************************************************************)

ChunkDone == cpc = "done"

\* The positions [0, len(text)) that lie in the range of a returned chunk.
Covered == {i \in 0..(Len(text) - 1) :
              \E k \in 1..Len(chunks) :
                 chunks[k].start_pos <= i /\ i < chunks[k].end_pos}

\* C8 (as claimed; the code violates it).  When chunk_text has returned,
\* every character of the text lies in the [start_pos, end_pos) range of
\* some returned chunk.  Stated here in its weakest reading, for the
\* characters that are not whitespace (a whitespace-only fragment is dropped
\* on purpose): the claim as worded implies it.
C8_CoversEveryChar ==
    ChunkDone =>
        \A i \in 0..(Len(text) - 1) :
            text[i + 1] \notin Whitespace => i \in Covered

\* C9.  For a text longer than the chunk size, the chunks returned carry
\* chunk_idx 0, 1, ..., n-1 in order and none has empty or whitespace-only
\* content (it holds of the list while it is built, too).
C9_ContiguousNonEmpty ==
    Len(text) > chunk_size =>
        \A k \in 1..Len(chunks) :
            /\ chunks[k].chunk_idx = k - 1
            /\ chunks[k].content # <<>>
            /\ \E j \in 1..Len(chunks[k].content) :
                  chunks[k].content[j] \notin Whitespace

\* C9's case: a text longer than the chunk size whose first fragment was
\* whitespace-only and dropped, and which still produced two chunks.
C9_Witness ==
    /\ ChunkDone
    /\ Len(text) > chunk_size
    /\ Len(chunks) >= 2
    /\ chunks[1].start_pos > 0

IsScenario ==
    /\ text = ScenarioText
    /\ chunk_size = ScenarioConfig.size
    /\ chunk_overlap = ScenarioConfig.overlap

\* C10.  chunk_text terminates for every text and every chunk size S and
\* overlap O < S: the loop body runs only while start < len(text), and every
\* iteration strictly increases start, so len(text) - start is a variant
\* that strictly decreases and stays positive inside the loop; a text shorter
\* than S is done after one iteration; and "A. B. C." with S = 4, O = 1 ends
\* with at least one chunk, all of them non-empty.
C10_Terminates ==
    /\ [](cpc = "loop" => start < Len(text))
    /\ [][cpc = "loop" =>
            /\ start' > start
            /\ start' >= start + chunk_size - chunk_overlap
            /\ (cpc' = "done" <=> start' >= Len(text))]_vars
    /\ []((cpc = "loop" /\ start = 0 /\ Len(text) <= chunk_size) =>
            NextStart(start, ChunkEnd(text, chunk_size, start),
                      chunk_size, chunk_overlap) >= Len(text))
    /\ []((IsScenario /\ ChunkDone) =>
            /\ Len(chunks) >= 1
            /\ \A k \in 1..Len(chunks) : chunks[k].content # <<>>)

\* C10's case: the scenario text has been chunked to the end.
C10_Witness == IsScenario /\ ChunkDone /\ Len(chunks) >= 1

(***************************************************************************)
(* BiomeBot.find_relevant_chunks (src/bot.py lines 57-86) and its call in  *)
(* handle_thread_message (lines 270-274).  SpecRetrieve starts from a      *)
(* report_chunks table of two reports, the first with any of the chunk     *)
(* indexes 0..MaxChunkIdx (a chunk whose embedding failed at ingestion is  *)
(* missing, so the indexes may have gaps), and from a query; each of the   *)
(* three calls inside the function returns or raises.  A chunk's content   *)
(* is named by its chunk_idx.  An embedding is a point of a line: the      *)
(* chunk of index i lies at 2*i and the query q at 2*q, a hair to the      *)
(* right, so that no two chunks are equally far from a query.              *)
(***************************************************************************)
MAX_CHUNKS_PER_QUERY == 5

MaxChunkIdx == 6

Queries == 0..MaxChunkIdx

\* The tables the retrieval is checked on.
ChunkTables ==
    {   {[report_id |-> 1, chunk_idx |-> i] : i \in a}
        \cup {[report_id |-> 2, chunk_idx |-> i] : i \in b} :
        a \in SUBSET (0..MaxChunkIdx), b \in SUBSET (0..1) }

\* ReportChunk.embedding.cosine_distance(query_embedding) (line 70).
cosine_distance(i, q) ==
    IF i <= q THEN 4 * (q - i) + 1 ELSE 4 * (i - q) - 1

\* order_by: the elements of the finite set S ordered by the function key.
RECURSIVE OrderBy(_, _)
OrderBy(S, key) ==
    IF S = {} THEN <<>>
    ELSE LET m == CHOOSE x \in S : \A y \in S : key[x] <= key[y]
         IN  <<m>> \o OrderBy(S \ {m}, key)

\* .limit(n) of a query.
Limit(seq, n) == SubSeq(seq, 1, Min({n, Len(seq)}))

\* filter(ReportChunk.report_id == report_id): the chunk indexes stored.
ChunksOfReport(table, report_id) ==
    {c.chunk_idx : c \in {d \in table : d.report_id = report_id}}

\* The query of lines 67-73.
VectorSearch(table, report_id, q) ==
    LET stored == ChunksOfReport(table, report_id)
    IN  Limit(OrderBy(stored, [i \in stored |-> cosine_distance(i, q)]),
              MAX_CHUNKS_PER_QUERY)

\* The query of lines 78-82.
FirstChunks(table, report_id) ==
    LET stored == ChunksOfReport(table, report_id)
    IN  Limit(OrderBy(stored, [i \in stored |-> i]),
              MAX_CHUNKS_PER_QUERY)

\* find_relevant_chunks without the outer try of lines 59 and 84-86.
find_relevant_chunks_unguarded(table, q, report_id, emb, vec, fb) ==
    IF ~emb THEN [raised |-> TRUE, value |-> <<>>]
    ELSE IF vec
    THEN [raised |-> FALSE, value |-> VectorSearch(table, report_id, q)]
    ELSE IF fb
    THEN [raised |-> FALSE, value |-> FirstChunks(table, report_id)]
    ELSE [raised |-> TRUE, value |-> <<>>]

\* find_relevant_chunks (lines 57-86).  emb, vec and fb tell whether
\* get_embedding (line 61), the pgvector query (lines 65-73) and the
\* fallback query (lines 78-82) return.  A get_embedding that raises leaves
\* the inner try unentered and is caught at line 84, as is a fallback query
\* that raises inside the inner handler.
find_relevant_chunks(table, q, report_id, emb, vec, fb) ==
    IF ~emb THEN [raised |-> FALSE, value |-> <<>>]
    ELSE IF vec
    THEN [raised |-> FALSE, value |-> VectorSearch(table, report_id, q)]
    ELSE IF fb
    THEN [raised |-> FALSE, value |-> FirstChunks(table, report_id)]
    ELSE [raised |-> FALSE, value |-> <<>>]

\* handle_thread_message line 270: the call, and where control goes from
\* it.  The call is outside the try of line 273, so an exception would
\* leave handle_thread_message for the handler of on_message.
Retrieve ==
    /\ mode = "retrieve"
    /\ call.fn = "find_relevant_chunks"
    /\ ~call.done
    /\ \E emb \in BOOLEAN, vec \in BOOLEAN, fb \in BOOLEAN :
          LET r == find_relevant_chunks(report_chunks, call.query,
                                        call.report_id, emb, vec, fb)
          IN  call' = [call EXCEPT !.done = TRUE, !.emb = emb, !.vec = vec,
                                   !.fb = fb, !.raised = r.raised,
                                   !.value = r.value,
                                   !.next = IF r.raised THEN "om_apology"
                                                        ELSE "t_typing"]
    /\ UNCHANGED <<mode, botVars, chunkVars>>

InitRetrieve ==
    /\ mode = "retrieve"
    /\ processing_users = {}
    /\ users = {}
    /\ reports = <<>>
    /\ report_chunks \in ChunkTables
    /\ messages = {}
    /\ threads = {}
    /\ nextId = 1
    /\ nPosted = 0
    /\ inbox = <<>>
    /\ task = [t \in Tasks |-> IdleTask]
    /\ stageLog = <<>>
    /\ text = <<>>
    /\ chunk_size = 1
    /\ chunk_overlap = 0
    /\ cpc = "idle"
    /\ start = 0
    /\ chunk_idx = 0
    /\ chunks = <<>>
    /\ \E q \in Queries, rid \in {1, 2} :
          call = [fn |-> "find_relevant_chunks", query |-> q,
                  report_id |-> rid, done |-> FALSE, emb |-> TRUE,
                  vec |-> TRUE, fb |-> TRUE, raised |-> FALSE,
                  value |-> <<>>, next |-> "t_retrieve"]

NextRetrieve == Retrieve

SpecRetrieve == InitRetrieve /\ [][NextRetrieve]_vars

\* The call of find_relevant_chunks has returned or raised.
Retrieved == call.fn = "find_relevant_chunks" /\ call.done

\* C11: find_relevant_chunks never raises, whichever of the embedding call,
\* the vector search and the fallback query fails: it returns a list of at
\* most MAX_CHUNKS_PER_QUERY contents of chunks of the report, and
\* handle_thread_message goes on to the generation step.
C11_RetrievalNeverRaises ==
    Retrieved =>
        /\ ~call.raised
        /\ call.next = "t_typing"
        /\ Len(call.value) <= MAX_CHUNKS_PER_QUERY
        /\ \A i \in 1..Len(call.value) :
              /\ call.value[i] \in ChunksOfReport(report_chunks, call.report_id)
              /\ \A j \in 1..Len(call.value) :
                    call.value[i] = call.value[j] => i = j

\* C11's case: the vector search and the fallback query both failed on a
\* report that has more chunks than MAX_CHUNKS_PER_QUERY.
C11_Witness ==
    /\ Retrieved
    /\ call.emb /\ ~call.vec /\ ~call.fb
    /\ Cardinality(ChunksOfReport(report_chunks, call.report_id))
          > MAX_CHUNKS_PER_QUERY

\* C12: whenever the embedding call fails or the vector search is
\* unavailable, the retrieval returns the first MAX_CHUNKS_PER_QUERY chunks
\* of the report in chunk_idx order (all of them when there are fewer).
C12_FallbackOnAnyFailure ==
    (Retrieved /\ (~call.emb \/ ~call.vec)) =>
        call.value = FirstChunks(report_chunks, call.report_id)

(***************************************************************************)
(* OpenAIClient.create_microbiome_analysis, lines 188-235: the message     *)
(* list is assembled, the token total is estimated and the list is         *)
(* truncated.  A text is a number of words separated by single blanks, so  *)
(* a text is modelled by its word count; a system prompt is modelled by    *)
(* its word count and by whether it ends in a non-blank character (the     *)
(* prompt of line 63 has 47 words and does, the prompt of line 139 has     *)
(* 154 words and ends in a blank).  SpecBudget starts from every history   *)
(* of up to MaxHistory messages of 1 or 1000 words, with no chunks or      *)
(* five chunks of 500 words, and with no question or one of 1 or 1000      *)
(* words.                                                                  *)
(***************************************************************************)
MAX_CONTEXT_TOKENS == 16000

RecentKept == 10

MaxHistory == 11

SystemPrompts == {[words |-> 47, open |-> TRUE], [words |-> 154, open |-> FALSE]}

MessageWords == {1, 1000}

QuestionWords == {0, 1, 1000}

ChunkLists == {<<>>, <<500, 500, 500, 500, 500>>}

\* The histories of n messages that end with the user's message.
Histories(n) ==
    { [k \in 1..n |-> [role |-> IF (n - k) % 2 = 0 THEN "user" ELSE "bot",
                       words |-> w[k]]] : w \in [1..n -> MessageWords] }

RECURSIVE SumSeq(_)
SumSeq(seq) == IF seq = <<>> THEN 0 ELSE Head(seq) + SumSeq(Tail(seq))

\* count_tokens_rough (lines 39-41) of a text of n words: int(n * 1.3).
count_tokens_rough(n) == (13 * n) \div 10

\* len(str(relevant_chunks).split()): the quotes, commas and brackets
\* cling to the words, and "[]" is one word.
ChunksReprWords(relevant_chunks) ==
    IF relevant_chunks = <<>> THEN 1
    ELSE SumSeq([i \in 1..Len(relevant_chunks) |->
                    Max({relevant_chunks[i], 1})])

\* len(str(conversation_history).split()): each message is
\* {'role': 'user', 'content': '...'}, three words and its content's.
HistoryReprWords(conversation_history) ==
    IF conversation_history = <<>> THEN 1
    ELSE SumSeq([i \in 1..Len(conversation_history) |->
                    3 + Max({conversation_history[i].words, 1})])

\* Lines 210-212.  Where two parts meet without a blank between them their
\* last and first words are one word.
EstimatedTokens(system_prompt, relevant_chunks, history, user_question) ==
    count_tokens_rough(
        system_prompt.words + ChunksReprWords(relevant_chunks)
        + HistoryReprWords(history) + user_question
        - (IF system_prompt.open THEN 1 ELSE 0)
        - 1
        - (IF user_question > 0 THEN 1 ELSE 0))

\* Lines 193-195: "Here are relevant sections from the user's microbiome
\* report:" and "Report Section: " before each chunk.
ContextWords(relevant_chunks) ==
    9 + SumSeq([i \in 1..Len(relevant_chunks) |-> 2 + relevant_chunks[i]])

\* Lines 189-207.  pos is the place of the message in the list assembled.
AssembleMessages(system_prompt, relevant_chunks, history, user_question) ==
    LET raw ==
          <<[role |-> "system", words |-> system_prompt.words]>>
          \o (IF relevant_chunks # <<>>
              THEN <<[role |-> "system",
                      words |-> ContextWords(relevant_chunks)]>>
              ELSE <<>>)
          \o [i \in 1..Len(history) |->
                [role |-> IF history[i].role = "bot"
                          THEN "assistant"
                          ELSE history[i].role,
                 words |-> history[i].words]]
          \o (IF user_question > 0
              THEN <<[role |-> "user", words |-> user_question]>>
              ELSE <<>>)
    IN  [i \in 1..Len(raw) |->
            [role |-> raw[i].role, words |-> raw[i].words, pos |-> i]]

IsSystem(msg) == msg.role = "system"

NotSystem(msg) == msg.role # "system"

\* The truncation with [-10:] taken of the whole list.
TruncateAll(msgs) == LastN(msgs, RecentKept)

\* Lines 220-226.
Truncate(msgs) ==
    SelectSeq(msgs, IsSystem) \o LastN(SelectSeq(msgs, NotSystem), RecentKept)

\* Line 215: estimated_tokens > MAX_CONTEXT_TOKENS * 0.8.
OverThreshold(estimated_tokens) ==
    10 * estimated_tokens > 8 * MAX_CONTEXT_TOKENS

\* Lines 188-226: the list handed to chat.completions.create at line 233.
PrepareMessages ==
    /\ mode = "budget"
    /\ call.fn = "create_microbiome_analysis"
    /\ ~call.done
    /\ LET assembled == AssembleMessages(call.system_prompt,
                             call.relevant_chunks, call.conversation_history,
                             call.user_question)
           est == EstimatedTokens(call.system_prompt, call.relevant_chunks,
                             call.conversation_history, call.user_question)
       IN  call' = [call EXCEPT !.done = TRUE,
                       !.assembled = assembled,
                       !.estimated_tokens = est,
                       !.messages = IF OverThreshold(est)
                                    THEN Truncate(assembled)
                                    ELSE assembled]
    /\ UNCHANGED <<mode, botVars, chunkVars>>

InitBudget ==
    /\ mode = "budget"
    /\ InitBotVars
    /\ text = <<>>
    /\ chunk_size = 1
    /\ chunk_overlap = 0
    /\ cpc = "idle"
    /\ start = 0
    /\ chunk_idx = 0
    /\ chunks = <<>>
    /\ \E sp \in SystemPrompts, rc \in ChunkLists, n \in 0..MaxHistory,
          q \in QuestionWords :
          \E h \in Histories(n) :
             call = [fn |-> "create_microbiome_analysis",
                     system_prompt |-> sp, relevant_chunks |-> rc,
                     conversation_history |-> h, user_question |-> q,
                     done |-> FALSE, assembled |-> <<>>,
                     estimated_tokens |-> 0, messages |-> <<>>]

NextBudget == PrepareMessages

SpecBudget == InitBudget /\ [][NextBudget]_vars

\* The message list is ready for the generation call.
Prepared == call.fn = "create_microbiome_analysis" /\ call.done

\* The positions, in the list assembled, of the messages of a list.
Positions(msgs) == [i \in 1..Len(msgs) |-> msgs[i].pos]

\* All system messages in their order, then the last RecentKept others.
SystemsThenRecent(msgs) ==
    LET sys == SelectSeq(msgs, IsSystem)
        oth == SelectSeq(msgs, NotSystem)
    IN  sys \o SubSeq(oth, Max({1, Len(oth) - RecentKept + 1}), Len(oth))

\* C13 as stated: the list is cut down exactly when the estimate exceeds
\* the context token budget, MAX_CONTEXT_TOKENS.
C13_CutWhenOverBudget ==
    Prepared =>
        call.messages = IF call.estimated_tokens > MAX_CONTEXT_TOKENS
                        THEN SystemsThenRecent(call.assembled)
                        ELSE call.assembled

\* C13: when the estimate of line 212 exceeds 80% of MAX_CONTEXT_TOKENS the
\* list sent is all system messages in their order followed by the last 10
\* other messages in their order; otherwise the list is unchanged.  In
\* both cases no system message is dropped.
C13_CutWhenOverThreshold ==
    Prepared =>
        /\ call.messages = IF 10 * call.estimated_tokens > 8 * MAX_CONTEXT_TOKENS
                           THEN SystemsThenRecent(call.assembled)
                           ELSE call.assembled
        /\ \A i \in 1..Len(call.assembled) :
              IsSystem(call.assembled[i]) =>
                 \E j \in 1..Len(call.messages) :
                    call.messages[j] = call.assembled[i]

\* C13's case: an estimate between 80% and 100% of MAX_CONTEXT_TOKENS with
\* more than 10 messages that are not system messages; older ones are cut.
C13_Witness ==
    /\ Prepared
    /\ 10 * call.estimated_tokens > 8 * MAX_CONTEXT_TOKENS
    /\ call.estimated_tokens <= MAX_CONTEXT_TOKENS
    /\ Len(SelectSeq(call.assembled, NotSystem)) > RecentKept
    /\ Len(call.messages) = Len(SelectSeq(call.assembled, IsSystem)) + RecentKept
    /\ Len(call.messages) < Len(call.assembled)

\* count_tokens_rough over the contents of a message list.
ListTokens(msgs) ==
    count_tokens_rough(SumSeq([i \in 1..Len(msgs) |-> msgs[i].words]))

\* C14: the message list passed to the generation call fits the budget:
\* after the truncation its estimated token total does not exceed
\* MAX_CONTEXT_TOKENS, for every history and every set of chunks.
C14_ListFitsBudget ==
    Prepared => ListTokens(call.messages) <= MAX_CONTEXT_TOKENS

(***************************************************************************)
(* The splitting of a response into Discord messages, handle_thread_message*)
(* lines 282-322.  A string is modelled as the sequence of its runs: a run *)
(* is a character and the number of times it is repeated, and neighbouring *)
(* runs differ in their character.  The characters are "x" (any character  *)
(* that is neither white space nor a period), ".", " " and "nl" (a line    *)
(* break).  SpecSegment starts from every string of up to MaxRuns runs     *)
(* whose lengths are taken from RunLengths.                                *)
(***************************************************************************)
DiscordLimit == 2000

SplitLimit == 1950

MaxRuns == 4

RunChars == {"x", ".", " ", "nl"}

\* A response has up to three line breaks in a row.
RunLengths(c) == IF c = "nl" THEN {1, 2, 3} ELSE {1, 2, 1000, 2001}

Run(c, k) == [ch |-> c, n |-> k]

Runs == UNION {{Run(c, l) : l \in RunLengths(c)} : c \in RunChars}

\* The responses the splitting is checked on.
Contents ==
    UNION { { s \in [1..k -> Runs] :
                \A i \in 1..(k - 1) : s[i].ch # s[i + 1].ch } :
            k \in 1..MaxRuns }

\* len(s)
RunLen(s) == SumSeq([i \in 1..Len(s) |-> s[i].n])

\* s + t
RunCat(s, t) ==
    IF s = <<>> THEN t
    ELSE IF t = <<>> THEN s
    ELSE IF s[Len(s)].ch = t[1].ch
    THEN SubSeq(s, 1, Len(s) - 1)
         \o <<Run(t[1].ch, s[Len(s)].n + t[1].n)>> \o Tail(t)
    ELSE s \o t

Blank(c) == c \in {" ", "nl"}

RECURSIVE LStrip(_)
LStrip(s) == IF s # <<>> /\ Blank(s[1].ch) THEN LStrip(Tail(s)) ELSE s

RECURSIVE RStrip(_)
RStrip(s) ==
    IF s # <<>> /\ Blank(s[Len(s)].ch)
    THEN RStrip(SubSeq(s, 1, Len(s) - 1))
    ELSE s

\* s.strip()
RunStrip(s) == RStrip(LStrip(s))

\* content.split('\n\n') (line 292), cur being the piece in hand: a run of
\* k line breaks holds k \div 2 separators, taken from the left, and leaves
\* k % 2 line breaks to the next piece.
RECURSIVE SplitParagraphs(_, _)
SplitParagraphs(s, cur) ==
    IF s = <<>> THEN <<cur>>
    ELSE IF s[1].ch = "nl" /\ s[1].n >= 2
    THEN <<cur>>
         \o [i \in 1..((s[1].n \div 2) - 1) |-> <<>>]
         \o SplitParagraphs(Tail(s), IF s[1].n % 2 = 1
                                     THEN <<Run("nl", 1)>> ELSE <<>>)
    ELSE SplitParagraphs(Tail(s), RunCat(cur, <<s[1]>>))

\* paragraph.split('. ') (line 303): the last period of a run of periods
\* and the first of the blanks after it are a separator.
RECURSIVE SplitSentences(_, _)
SplitSentences(s, cur) ==
    IF s = <<>> THEN <<cur>>
    ELSE IF Len(s) >= 2 /\ s[1].ch = "." /\ s[2].ch = " "
    THEN <<RunCat(cur, IF s[1].n > 1 THEN <<Run(".", s[1].n - 1)>> ELSE <<>>)>>
         \o SplitSentences(
               RunCat(IF s[2].n > 1 THEN <<Run(" ", s[2].n - 1)>> ELSE <<>>,
                      SubSeq(s, 3, Len(s))),
               <<>>)
    ELSE SplitSentences(Tail(s), RunCat(cur, <<s[1]>>))

\* Lines 297-299 and 306-308: the chunk in hand, stripped, joins the list.
Flush(st) ==
    IF st.current_chunk # <<>>
    THEN [chunks |-> Append(st.chunks, RunStrip(st.current_chunk)),
          current_chunk |-> <<>>]
    ELSE st

\* Lines 305-309 for one sentence.
AddSentence(st, sentence) ==
    LET st1 == IF RunLen(st.current_chunk) + RunLen(sentence) + 2 > SplitLimit
               THEN Flush(st) ELSE st
    IN  [st1 EXCEPT !.current_chunk =
            RunCat(RunCat(@, sentence), <<Run(".", 1), Run(" ", 1)>>)]

\* The loop of lines 304-309.
RECURSIVE SentenceLoop(_, _)
SentenceLoop(sentences, st) ==
    IF sentences = <<>> THEN st
    ELSE SentenceLoop(Tail(sentences), AddSentence(st, Head(sentences)))

\* Lines 295-311 for one paragraph.
AddParagraph(st, paragraph) ==
    LET st1 == IF RunLen(st.current_chunk) + RunLen(paragraph) + 2 > SplitLimit
               THEN Flush(st) ELSE st
    IN  IF RunLen(paragraph) > SplitLimit
        THEN SentenceLoop(SplitSentences(paragraph, <<>>), st1)
        ELSE [st1 EXCEPT !.current_chunk =
                 RunCat(RunCat(@, paragraph), <<Run("nl", 2)>>)]

\* The loop of lines 294-311.
RECURSIVE ParagraphLoop(_, _)
ParagraphLoop(paragraphs, st) ==
    IF paragraphs = <<>> THEN st
    ELSE ParagraphLoop(Tail(paragraphs), AddParagraph(st, Head(paragraphs)))

\* Lines 288-315: the list chunks.
SplitResponse(content) ==
    LET st == ParagraphLoop(SplitParagraphs(content, <<>>),
                            [chunks |-> <<>>, current_chunk |-> <<>>])
    IN  IF RunStrip(st.current_chunk) # <<>>
        THEN Append(st.chunks, RunStrip(st.current_chunk))
        ELSE st.chunks

\* "Response too long to display." (line 318)
TooLongNotice ==
    <<Run("x", 8), Run(" ", 1), Run("x", 3), Run(" ", 1), Run("x", 4),
      Run(" ", 1), Run("x", 2), Run(" ", 1), Run("x", 7), Run(".", 1)>>

\* The splitting without the test of line 284.
SegmentsAlwaysSplit(content) ==
    LET split == SplitResponse(content)
    IN  IF split # <<>> THEN split ELSE <<TooLongNotice>>

\* Lines 284-322: the texts passed to message.reply and then, one by one,
\* to message.channel.send.
Segments(content) ==
    IF RunLen(content) <= DiscordLimit
    THEN <<content>>
    ELSE LET split == SplitResponse(content)
         IN  IF split # <<>> THEN split ELSE <<TooLongNotice>>

SendResponse ==
    /\ mode = "segment"
    /\ call.fn = "send_response"
    /\ ~call.done
    /\ call' = [call EXCEPT !.done = TRUE, !.segments = Segments(call.content)]
    /\ UNCHANGED <<mode, botVars, chunkVars>>

InitSegment ==
    /\ mode = "segment"
    /\ InitBotVars
    /\ text = <<>>
    /\ chunk_size = 1
    /\ chunk_overlap = 0
    /\ cpc = "idle"
    /\ start = 0
    /\ chunk_idx = 0
    /\ chunks = <<>>
    /\ \E c \in Contents :
          call = [fn |-> "send_response", content |-> c, done |-> FALSE,
                  segments |-> <<>>]

NextSegment == SendResponse

SpecSegment == InitSegment /\ [][NextSegment]_vars

\* The response has been split and its segments handed to Discord.
Segmented == call.fn = "send_response" /\ call.done

\* C15: every segment sent to Discord has at most 2000 characters.
C15_SegmentsWithinLimit ==
    Segmented =>
        \A i \in 1..Len(call.segments) :
           RunLen(call.segments[i]) <= DiscordLimit

\* The text has no paragraph break and no sentence terminator.
Unbroken(s) == \A i \in 1..Len(s) : s[i].ch \notin {".", "nl"}

\* C16: a text of exactly DiscordLimit + 1 characters with no paragraph
\* break and no sentence terminator yields exactly two segments, both
\* non-empty and both within the limit.
C16_OneOverLimitGivesTwo ==
    (Segmented /\ RunLen(call.content) = DiscordLimit + 1
               /\ Unbroken(call.content)) =>
        /\ Len(call.segments) = 2
        /\ \A i \in 1..2 : /\ call.segments[i] # <<>>
                           /\ RunLen(call.segments[i]) <= DiscordLimit

\* C17: every non-empty text yields at least one segment and no segment is
\* empty, texts with white-space-only paragraphs included.
C17_NoEmptySegment ==
    (Segmented /\ call.content # <<>>) =>
        /\ Len(call.segments) >= 1
        /\ \A i \in 1..Len(call.segments) : call.segments[i] # <<>>

\* The concatenation of the strings of a list.
RECURSIVE Joined(_)
Joined(list) ==
    IF list = <<>> THEN <<>> ELSE RunCat(Head(list), Joined(Tail(list)))

\* A string without its white space.
RECURSIVE Unspaced(_)
Unspaced(s) ==
    IF s = <<>> THEN <<>>
    ELSE IF Blank(s[1].ch) THEN Unspaced(Tail(s))
    ELSE RunCat(<<s[1]>>, Unspaced(Tail(s)))

\* C18: the segmentation loses nothing: the segments concatenated in
\* order give the original text, white space aside.  (The code makes no
\* hard cut, so the exception for a hard cut never applies.)
C18_Lossless ==
    Segmented => Unspaced(Joined(call.segments)) = Unspaced(call.content)

\* C19: a text not longer than the limit is sent as exactly one segment
\* equal to the text.
C19_ShortSentWhole ==
    (Segmented /\ RunLen(call.content) <= DiscordLimit) =>
        call.segments = <<call.content>>

\* C19's case: a text of exactly 2000 characters that the splitting would
\* have changed has been sent.
C19_Witness ==
    /\ Segmented
    /\ RunLen(call.content) = DiscordLimit
    /\ SegmentsAlwaysSplit(call.content) # <<call.content>>
    /\ call.segments = <<call.content>>

(***************************************************************************)
(* Re-upload: SpecUpload's runs in which the user uploads again, in the    *)
(* thread of a report the user owns.                                       *)
(***************************************************************************)

\* Task t is handling an upload that its author posted in the thread of a
\* report of the author's own.
Reuploading(t) ==
    /\ task[t].pc \in IngestPcs
    /\ task[t].msg.channel.kind = "thread"
    /\ ReportOfThread(task[t].msg.channel.id) # 0
    /\ reports[ReportOfThread(task[t].msg.channel.id)].user_id
          = task[t].msg.author

\* C20: a re-upload by the same user to the thread id of an existing Report
\* replaces it: when process_pdf_upload has ended, the old Report is gone
\* from the table (with its chunks and messages), purged before the new
\* Report was created.
C20_ReuploadReplaces ==
    [][\A t \in Tasks :
          (Reuploading(t) /\ task'[t].pc = "idle") =>
             LET old == ReportOfThread(task[t].msg.channel.id)
             IN  \A i \in 1..Len(reports') : reports'[i].id # old]_vars

(***************************************************************************)
(* Ingestion: what process_pdf_upload leaves in the database.              *)
(***************************************************************************)

\* C21: in every reachable state the persisted chunks of a Report have the
\* indices 0..n-1 with no gap, also after an ingestion in which the
\* embedding call failed for some of the chunks.
C21_ChunkIndicesContiguous ==
    \A r \in 1..Len(reports) :
       LET stored == ChunksOfReport(report_chunks, r)
       IN  stored = 0..(Cardinality(stored) - 1)

\* The upload of task t has left no row: no Report was created for it, so
\* no Chunk and no Message can refer to one.
NothingPersisted(tk, rs) ==
    /\ tk.report = 0
    /\ tk.bot_msg = 0
    /\ \A r \in 1..Len(rs) : rs[r].thread_id # tk.thread

\* C22: if process_pdf raises, the ingestion is aborted with no Report,
\* Chunk or Message persisted: the step in which it raises writes nothing
\* and awaits the apology reply of line 245, the handler holds no Report
\* while that reply is awaited, and once the reply has been awaited the
\* handler sends nothing more of the upload and persists nothing.
C22_DecodeFailureAborts ==
    [][\A t \in Tasks :
         /\ (task[t].pc = "u_analyzing" /\ task'[t].err = "process_pdf")
               => /\ task'[t].pc = "u_apology"
                  /\ task'[t].apology.text = ApologyText("process_pdf_upload", "detail_a").text
                  /\ NothingPersisted(task'[t], reports')
                  /\ <<reports, report_chunks, messages>>' =
                        <<reports, report_chunks, messages>>
         /\ (task[t].pc = "u_apology" /\ task[t].err = "process_pdf")
               => /\ NothingPersisted(task[t], reports)
                  /\ task'[t].pc # "u_apology"
                      => /\ <<reports, report_chunks, messages>>' =
                               <<reports, report_chunks, messages>>
                         /\ \/ task'[t] = IdleTask
                            \/ /\ task'[t].pc = "om_apology"
                               /\ task'[t].out = task[t].out
                               /\ NothingPersisted(task'[t], reports')]_vars

\* process_pdf raised and the apology reply is awaited.
C22_Witness ==
    \E t \in Tasks :
       /\ task[t].pc = "u_apology"
       /\ task[t].err = "process_pdf"
       /\ Len(task[t].out) > 0

\* C23: whenever process_pdf_upload ends on its failure path, at any step,
\* no Report, Chunk or Message of that upload remains persisted: when the
\* apology reply of line 245 has been awaited, no Report carries the
\* upload's thread and no row refers to such a Report.
C23_FailedUploadLeavesNothing ==
    [][\A t \in Tasks :
         (task[t].pc = "u_apology" /\ task'[t].pc # "u_apology")
            => LET mine == {r \in 1..Len(reports') :
                               reports'[r].thread_id = task[t].thread}
               IN  /\ mine = {}
                   /\ \A c \in report_chunks' : c.report_id \notin mine
                   /\ \A m \in messages' : m.report_id \notin mine]_vars

(* What the user is shown after a failure. *)

\* The except clause whose reply is awaited at pc.
ApologySite(pc) ==
    CASE pc = "u_apology" -> "process_pdf_upload"
      [] pc = "t_apology" -> "handle_thread_message"
      [] OTHER -> "on_message"

\* The calls of process_pdf_upload that persist rows.
PersistenceCalls == {"commit", "save_user", "save_bot"}

\* C26: the text shown after a generation or persistence failure carries no
\* internal detail: the apology a handler is about to send after such a
\* failure is the text it would send had the exception carried any other
\* detail.
C26_ApologyHidesDetail ==
    \A t \in Tasks :
       (/\ task[t].pc \in {"u_apology", "t_apology", "om_apology"}
        /\ (task[t].err \in PersistenceCalls \/ task[t].gen = "failed"))
          => \A d \in Details :
                task[t].apology = ApologyText(ApologySite(task[t].pc), d)

(* The order of the history. *)

\* Where the row with this id stands in what get_thread_conversation_history
\* finds for its report.
PositionIn(found, id) == CHOOSE i \in DOMAIN found : found[i].id = id

\* C24: get_thread_conversation_history returns the messages in the order
\* save_message inserted them: a row that save_message inserts stands,
\* in the history of its report, after every row that was there before.
C24_HistoryInInsertionOrder ==
    [][\A m \in messages' \ messages :
         LET found == HistoryRows(messages', m.report_id)
         IN  \A old \in messages :
                old.report_id = m.report_id
                   => PositionIn(found, old.id) < PositionIn(found, m.id)]_vars

\* C24, amended: get_thread_conversation_history returns every message of
\* the report once, in ascending Message.id, the order in which Discord
\* created the messages; every id was allotted before the next one to come.
C24_HistoryInIdOrder ==
    \A r \in 1..Len(reports) :
       LET found == HistoryRows(messages, r)
       IN  /\ {found[i] : i \in DOMAIN found} =
                 {m \in messages : m.report_id = r}
           /\ \A i, j \in DOMAIN found : i < j => found[i].id < found[j].id
           /\ \A i \in DOMAIN found : found[i].id < nextId

\* Two handlers of one report are in flight, one of them holding a history
\* of three messages.
C24_Witness ==
    \E t1, t2 \in Tasks :
       /\ t1 # t2
       /\ task[t1].report # 0
       /\ task[t1].report = task[t2].report
       /\ task[t1].pc \in AnsweringPcs
       /\ Len(task[t1].hist) >= 3
       /\ Len(HistoryRows(messages, task[t1].report)) >= 3

(* A generation call that fails. *)

\* The step of handler t in which its generation call raised.
GenerationFails(t) ==
    /\ task[t].pc = "t_typing"
    /\ Len(stageLog') = Len(stageLog) + 1
    /\ stageLog'[Len(stageLog')].msg = task[t].msg.id
    /\ ~stageLog'[Len(stageLog')].ok

\* The row save_message wrote for the inbound message of the handler.
UserRowOf(tk) == MessageRow(tk.msg.id, tk.report, "user", tk.msg.text)

\* C25: when the generation call fails for an inbound thread message, the
\* user's message stays persisted, no bot Message is persisted for it, no
\* follow-up is sent, and the user is sent the one generic apology: the
\* failing step writes and sends nothing and awaits the reply of line 346,
\* and after that reply the handler ends having written and sent nothing.
C25_GenerationFailure ==
    [][\A t \in Tasks :
         /\ GenerationFails(t)
               => /\ task'[t].pc = "t_apology"
                  /\ task'[t].apology =
                        ApologyText("handle_thread_message", "detail_a")
                  /\ task'[t].bot_msg = 0
                  /\ task'[t].out = <<>>
                  /\ UserRowOf(task[t]) \in messages'
                  /\ messages' = messages
                  /\ nextId' = nextId
         /\ (task[t].pc = "t_apology" /\ task[t].gen = "failed"
                                      /\ task'[t] # task[t])
               => /\ UserRowOf(task[t]) \in messages'
                  /\ messages' = messages
                  /\ nextId' = nextId
                  /\ \/ task'[t] = IdleTask
                     \/ /\ task'[t].pc = "om_apology"
                        /\ task'[t].out = <<>>]_vars

\* The generation call of a handler failed and its apology is awaited.
C25_Witness ==
    \E t \in Tasks :
       /\ task[t].pc = "t_apology"
       /\ task[t].gen = "failed"
       /\ UserRowOf(task[t]) \in messages

(* How often the collaborators are called. *)

\* The calls of fn the handler has made in a step.
CallsOf(tk, fn, step) ==
    {i \in DOMAIN tk.calls : tk.calls[i].fn = fn /\ tk.calls[i].step = step}

\* C27: for one inbound thread message the query embedding call and the
\* main generation call are each invoked at most once, and a call that
\* failed is not invoked again: the handler of a failed generation only
\* awaits an apology, and no message id has two generation calls logged.
C27_CallsAtMostOnce ==
    /\ \A t \in Tasks :
          /\ Cardinality(CallsOf(task[t], "get_embedding", "answer")) <= 1
          /\ Cardinality(CallsOf(task[t], "create_microbiome_analysis",
                                 "answer")) <= 1
          /\ (\E i \in CallsOf(task[t], "create_microbiome_analysis", "answer") :
                 ~task[t].calls[i].ok)
                => task[t].pc \in {"t_apology", "om_apology"}
    /\ \A i, j \in DOMAIN stageLog :
          stageLog[i].msg = stageLog[j].msg => i = j

\* A handler whose embedding call and whose generation call both failed.
C27_Witness ==
    \E t \in Tasks :
       /\ \E i \in CallsOf(task[t], "get_embedding", "answer") :
             ~task[t].calls[i].ok
       /\ \E i \in CallsOf(task[t], "create_microbiome_analysis", "answer") :
             ~task[t].calls[i].ok

(* What handling a thread message writes. *)

\* The step is one of on_message handling a message posted in a thread:
\* its entry, taking the message from the inbox, or a later step of it.
HandlesThreadMessage ==
    \/ /\ inbox # <<>>
       /\ inbox' = Tail(inbox)
       /\ ~Head(inbox).bot
       /\ ~Head(inbox).mention
       /\ Head(inbox).channel.kind = "thread"
    \/ \E t \in Tasks :
          /\ task'[t] # task[t]
          /\ task[t].pc # "idle"
          /\ ~task[t].msg.mention
          /\ task[t].msg.channel.kind = "thread"

\* C28: handling a thread message never creates, changes or deletes a Report
\* or a Chunk and never changes or deletes an existing Message; it only
\* appends Message rows under new ids and, on entry, at most one User row.
C28_ThreadHandlingFrame ==
    [][HandlesThreadMessage
          => /\ reports' = reports
             /\ report_chunks' = report_chunks
             /\ messages \subseteq messages'
             /\ \A m \in messages' \ messages :
                   \A old \in messages : old.id # m.id
             /\ users \subseteq users'
             /\ Cardinality(users' \ users) <= 1
             /\ users' # users => inbox' # inbox]_vars

\* A handler of a thread message is about to save the last follow-up while
\* the report has its chunks and four messages.
C28_Witness ==
    \E t \in Tasks :
       /\ task[t].pc = "f_qa"
       /\ task[t].msg.channel.kind = "thread"
       /\ \E c \in report_chunks : c.report_id = task[t].report
       /\ Cardinality({m \in messages : m.report_id = task[t].report}) >= 4

(* The order in which the segments of a response are sent. *)

\* C29: the segments of one response are emitted in segment order: the
\* first as the reply, each later one by a send that starts only after the
\* previous segment was sent, and the segments still to send are the rest
\* of the list.
C29_SegmentsInOrder ==
    \A t \in Tasks :
       /\ \A i \in DOMAIN task[t].emitted :
             /\ task[t].emitted[i].seg = i
             /\ task[t].emitted[i].via = (IF i = 1 THEN "reply" ELSE "send")
       /\ \A i \in DOMAIN task[t].pending :
             task[t].pending[i] = Len(task[t].emitted) + i
       /\ task[t].pc = "t_send"
             => task[t].emitted # <<>> /\ task[t].pending # <<>>

\* A handler has sent the first two segments of a response of three and
\* awaits the send of the third.
C29_Witness ==
    \E t \in Tasks :
       /\ task[t].pc = "t_send"
       /\ Len(task[t].emitted) = 2
       /\ task[t].pending = <<3>>

(* Where chunk_text cuts. *)

\* The positions of the character ch in the window of size chunk_size that
\* starts at st.
InWindow(ch, st) ==
    {i \in st..(st + chunk_size - 1) : i < Len(text) /\ text[i + 1] = ch}

\* Position i lies beyond the midpoint st + chunk_size/2 of the window.
BeyondMidpoint(i, st) == 2 * i > 2 * st + chunk_size

\* C30: when text remains beyond start + S, a fragment ends just after the
\* last '.' of the window if that period lies beyond the window's midpoint,
\* otherwise at the last newline of the window if that lies beyond the
\* midpoint, otherwise exactly at start + S; no fragment is longer than S.
C30_CutRule ==
    \A k \in 1..Len(chunks) :
       LET st == chunks[k].start_pos
           en == chunks[k].end_pos
           periods == InWindow(".", st)
           newlines == InWindow("\n", st)
       IN  /\ st + chunk_size < Len(text)
                => IF periods # {} /\ BeyondMidpoint(Max(periods), st)
                   THEN en = Max(periods) + 1
                   ELSE IF newlines # {} /\ BeyondMidpoint(Max(newlines), st)
                   THEN en = Max(newlines)
                   ELSE en = st + chunk_size
           /\ en - st <= chunk_size
           /\ Len(chunks[k].content) <= chunk_size

\* A fragment with text remaining beyond its window was cut just after a
\* period, short of the window's end.
C30_Witness ==
    \E k \in 1..Len(chunks) :
       LET st == chunks[k].start_pos
       IN  /\ st + chunk_size < Len(text)
           /\ chunks[k].end_pos < st + chunk_size
           /\ text[chunks[k].end_pos] = "."

(* When the follow-ups are sent. *)

\* Handler t saves, in this step, the response it generated and sent.
SavesResponse(t) ==
    /\ task[t].pc \in {"t_reply", "t_send"}
    /\ task[t].gen = "ok"
    /\ \E m \in messages' \ messages : m.role = "bot"

\* C31: when the response generated for an inbound message is an executive
\* summary, the follow-ups are sent in the handling of that same message,
\* right after the summary: the step that saves the summary goes on to the
\* actionable insight.
C31_FollowupsAfterSummary ==
    [][\A t \in Tasks :
         (SavesResponse(t) /\ "executive summary" \in task[t].resp.kws)
            => task'[t].pc \in {"f_insight", "f_sleep"}]_vars

(* Whether chunks overlap. *)

FollowupPcs == {"f_insight", "f_sleep", "f_qa"}

\* The handler has called the generation for the actionable insight.
InsightAttempted(tk) ==
    CallsOf(tk, "create_microbiome_analysis", "insight") # {}

\* C33: in a follow-up round the actionable insight is attempted before the
\* Q&A invitation, a failure of the insight (its generation, its send or
\* its save) does not keep the round from reaching the invitation, and a
\* failure of either follow-up never produces an error reply: the round is
\* entered by the insight's generation call, every step of it leads to the
\* next point of the round, and the invitation ends the handler.
C33_FollowupRound ==
    [][\A t \in Tasks :
         /\ (SavesResponse(t) /\ FollowupDue(task[t].hist))
               => /\ task'[t].pc \in {"f_insight", "f_sleep"}
                  /\ InsightAttempted(task'[t])
                  /\ task'[t].pc = "f_insight"
                        <=> task'[t].calls[Len(task'[t].calls)].ok
         /\ (task[t].pc = "f_insight" /\ task'[t] # task[t])
               => task'[t].pc = "f_sleep"
         /\ (task[t].pc = "f_sleep" /\ task'[t] # task[t])
               => task'[t].pc = "f_qa"
         /\ (task[t].pc = "f_qa" /\ task'[t] # task[t])
               => /\ InsightAttempted(task[t])
                  /\ task'[t] = IdleTask
         /\ task'[t].pc \in FollowupPcs
               => (task[t].pc \in FollowupPcs \/ SavesResponse(t))]_vars

\* The generation of the insight failed and the send of the invitation is
\* awaited.
C33_Witness ==
    \E t \in Tasks :
       /\ task[t].pc = "f_qa"
       /\ \E i \in CallsOf(task[t], "create_microbiome_analysis", "insight") :
             ~task[t].calls[i].ok

(* The retries of the thread creation. *)

\* The creation attempts made after the 'thread already exists' error: one
\* for each temporary message sent (lines 136-137).
FurtherAttempts(tk) ==
    Cardinality({i \in DOMAIN tk.out : tk.out[i] = "temp"})

\* C34: when creating the thread fails with the 'thread already exists'
\* error, at most 10 further creation attempts are made; if all of them fail
\* the user gets the one failure reply, no Report, Chunk or Message is
\* persisted, and the upload guard is released when the reply has been sent.
C34_BoundedThreadRetries ==
    [][\A t \in Tasks :
         /\ FurtherAttempts(task[t]) <= MaxThreadAttempts
         /\ FurtherAttempts(task'[t]) <= MaxThreadAttempts
         /\ (task[t].pc = "u_fail_reply" /\ task'[t] # task[t])
               => /\ task[t].counter = MaxThreadAttempts + 1
                  /\ task[t].thread = 0
                  /\ NothingPersisted(task[t], reports')
                  /\ <<reports, report_chunks, messages>>' =
                        <<reports, report_chunks, messages>>
                  /\ \/ /\ task'[t] = IdleTask
                        /\ task[t].msg.author \notin processing_users'
                     \/ /\ task'[t].pc = "u_apology"
                        /\ task'[t].out = task[t].out]_vars

\* Ten further attempts have failed and the failure reply is awaited.
C34_Witness ==
    \E t \in Tasks :
       /\ task[t].pc = "u_fail_reply"
       /\ FurtherAttempts(task[t]) = MaxThreadAttempts
       /\ task[t].msg.author \in processing_users

(* The message list of the generation call. *)

\* The inbound message of a handler as an entry of the message list.
OwnEntry(tk) == [role |-> "user", content |-> tk.msg.text]

\* C35: the message list given to the generation call ends with the inbound
\* message twice, once as the last history entry and once more as the
\* appended user question.
C35_EndsWithInboundTwice ==
    \A t \in Tasks :
       task[t].pc = "t_typing"
          => LET list == ConversationMessages(task[t].hist, task[t].msg.text)
             IN  /\ Len(list) >= 2
                 /\ list[Len(list)] = OwnEntry(task[t])
                 /\ list[Len(list) - 1] = OwnEntry(task[t])

\* C35, amended: the history handle_thread_message reads holds the inbound
\* message, saved just before, at the place its id gives it, which is the
\* last place exactly when no row of the report has a higher id; the list
\* of the generation call is that history followed, when the message's text
\* is not empty, by the message once more as its last element.
C35_InboundInHistoryAndAppended ==
    [][\A t \in Tasks :
         (task[t].pc = "idle" /\ task'[t].pc = "t_typing")
            => LET tk == task'[t]
                   found == HistoryRows(messages', tk.report)
                   pos == PositionIn(found, tk.msg.id)
                   list == ConversationMessages(tk.hist, tk.msg.text)
               IN  /\ Len(tk.hist) = Len(found)
                   /\ tk.hist[pos] = OwnEntry(tk)
                   /\ pos = Len(found)
                         <=> \A m \in messages' :
                                m.report_id = tk.report => m.id <= tk.msg.id
                   /\ \A i \in DOMAIN tk.hist :
                         /\ list[i].content = tk.hist[i].content
                         /\ list[i].role = (IF tk.hist[i].role = "bot"
                                            THEN "assistant" ELSE "user")
                   /\ IF Truthy(tk.msg.text)
                      THEN /\ Len(list) = Len(tk.hist) + 1
                           /\ list[Len(list)] = OwnEntry(tk)
                      ELSE Len(list) = Len(tk.hist)]_vars

\* A handler is about to call the generation for a message with text whose
\* history ends with a bot message sent after the message was posted.
C35_Witness ==
    \E t \in Tasks :
       /\ task[t].pc = "t_typing"
       /\ Truthy(task[t].msg.text)
       /\ task[t].hist[Len(task[t].hist)].role = "bot"
       /\ \E m \in messages :
             /\ m.report_id = task[t].report
             /\ m.id > task[t].msg.id

(***************************************************************************)
(*                        C36: routing in on_message                       *)
(***************************************************************************)

\* The handler of on_message a position belongs to; "none" outside of the
\* three handlers (idle, or in on_message's own apology).
HandlerOf(pc) ==
    CASE pc \in IngestPcs \cup {"wait_notice"} -> "upload"
      [] pc = "greet" -> "greeting"
      [] pc \in AnsweringPcs \cup FollowupPcs \cup {"t_apology"} -> "thread"
      [] OTHER -> "none"

\* The step is on_message's entry for the oldest inbound message, on task t.
Routed(t) ==
    /\ inbox # <<>>
    /\ inbox' = Tail(inbox)
    /\ Free(t)
    /\ \A t2 \in TasksOf : Free(t2) => ~(t2 < t)

HasPdf(m) == \E i \in 1..Len(m.atts) : m.atts[i] = "pdf"

\* C36: on_message routes each message to at most one handler, a mention
\* with attachments before a mention before a thread message.  A handler
\* that runs is never exchanged for another; a message that mentions the
\* bot goes to the upload loop when it has attachments and to the greeting
\* otherwise, is never in handle_thread_message and is not saved at its
\* entry, even in a report thread; and a mention whose attachments hold no
\* PDF ends at once, with no reply (no message id is taken) and nothing
\* persisted.
C36_OneHandlerByPrecedence ==
    [][\A t \in TasksOf :
         /\ (HandlerOf(task[t].pc) # "none" /\ HandlerOf(task'[t].pc) # "none")
               => HandlerOf(task'[t].pc) = HandlerOf(task[t].pc)
         /\ task[t].pc = "om_apology" => task'[t].pc \in {"om_apology", "idle"}
         /\ (task'[t].pc # "idle" /\ task'[t].msg.mention)
               => HandlerOf(task'[t].pc) # "thread"
         /\ (task[t].pc # "idle" /\ task[t].msg.mention
                /\ \E r \in messages' \ messages : r.id = task[t].msg.id)
               => task[t].pc = "u_first"
         /\ (Routed(t) /\ ~Head(inbox).bot /\ Head(inbox).mention)
               => LET m == Head(inbox)
                  IN  /\ messages' = messages
                      /\ stageLog' = stageLog
                      /\ (m.atts = <<>>) => task'[t].pc = "greet"
                      /\ (m.atts # <<>> /\ HasPdf(m))
                            => HandlerOf(task'[t].pc) = "upload"
                      /\ (m.atts # <<>> /\ ~HasPdf(m))
                            => /\ task'[t] = IdleTask
                               /\ UNCHANGED <<processing_users, users, reports,
                                              report_chunks, messages, threads,
                                              nextId>>
    ]_vars

\* A message that mentions the bot, posted in the thread of a report, is
\* being answered with the greeting.
C36_Witness ==
    \E t \in TasksOf :
       /\ task[t].pc = "greet"
       /\ task[t].msg.mention
       /\ task[t].msg.channel.kind = "thread"
       /\ ReportOfThread(task[t].msg.channel.id) # 0

(***************************************************************************)
(*                   C37: messages that are ignored                        *)
(***************************************************************************)

\* The message was posted in a thread that no Report carries.
InThreadWithoutReport(m) ==
    /\ m.channel.kind = "thread"
    /\ ReportOfThread(m.channel.id) = 0

\* on_message's entry for a message leaves every persisted row, the
\* threads and the upload guard as they are and sends nothing, and the
\* handler is over.
IgnoredAtEntry(t) ==
    /\ task'[t] = IdleTask
    /\ UNCHANGED <<users, reports, report_chunks, messages, threads,
                   processing_users, nextId>>

\* A step of the handler of a message persists nothing and sends nothing.
StepWithoutEffect ==
    UNCHANGED <<users, reports, report_chunks, messages, threads, nextId>>

\* C37 as stated: whatever message is posted in a thread that has no
\* Report, and whatever message a bot has written, handling it persists
\* nothing (no User, no Message) and sends no outbound message.
C37_NoReportThreadNoEffect ==
    [][\A t \in TasksOf :
         /\ (Routed(t) /\ (Head(inbox).bot
                              \/ InThreadWithoutReport(Head(inbox))))
               => StepWithoutEffect
         /\ (task[t].pc # "idle" /\ task'[t] # task[t]
                /\ (task[t].msg.bot \/ InThreadWithoutReport(task[t].msg)))
               => StepWithoutEffect
    ]_vars

\* C37, amended: a message that does not mention the bot and is posted in
\* a thread that has no Report, and a message a bot has written, are
\* dropped at on_message's entry: nothing is persisted (no User, no
\* Message), nothing is sent, and the handler is over.
C37_UnmentionedNoReportThreadNoEffect ==
    [][\A t \in TasksOf :
         (Routed(t) /\ (Head(inbox).bot
                          \/ (~Head(inbox).mention
                                /\ InThreadWithoutReport(Head(inbox)))))
           => IgnoredAtEntry(t)
    ]_vars

\* A report and its thread exist, and the message on_message takes next
\* is a user's, without a mention, in a thread that no Report carries.
C37_Witness ==
    /\ inbox # <<>>
    /\ ~Head(inbox).bot
    /\ ~Head(inbox).mention
    /\ InThreadWithoutReport(Head(inbox))
    /\ reports # <<>>
    /\ \E t \in TasksOf : Free(t)

(***************************************************************************)
(*                  C38: one ingestion for one message                     *)
(***************************************************************************)

\* C38: for one message with several PDF attachments at most one ingestion
\* is started.  process_pdf_upload is entered only from on_message's entry
\* or after a "please wait" reply, never after an ingestion; while it runs
\* the message and the attachment it works on stay the same; and when it
\* has ended, by returning or by raising, the handler ends, at once or
\* after on_message's apology: no later attachment is ingested or replied
\* to.
C38_OneIngestionPerMessage ==
    [][\A t \in TasksOf :
         /\ (task'[t].pc \in IngestPcs /\ task[t].pc \notin IngestPcs)
               => /\ task[t].pc \in {"idle", "wait_notice"}
                  /\ task'[t].pc = "u_read"
         /\ task[t].pc \in IngestPcs
               => /\ task'[t].pc \in IngestPcs \cup {"idle", "om_apology"}
                  /\ task'[t].pc \in IngestPcs \cup {"om_apology"}
                        => /\ task'[t].msg = task[t].msg
                           /\ task'[t].ai = task[t].ai
         /\ (task[t].pc = "om_apology" /\ task[t].ai # 0)
               => /\ task'[t].pc \in {"om_apology", "idle"}
                  /\ task'[t].pc = "om_apology" => task'[t].ai = task[t].ai
    ]_vars

\* The ingestion of the first of two PDF attachments of a message has
\* sent its first message; the second PDF is still to come in the list.
C38_Witness ==
    \E t \in TasksOf :
       /\ task[t].pc = "u_first"
       /\ task[t].ai = 1
       /\ NextPdf(task[t].msg, 2) = 2

====
